---- MODULE Spec2Model ----
(***************************************************************************)
(* Anycubic cloud <-> local MQTT proxy (mqtt_proxy/main.py) and its Home   *)
(* Assistant discovery/state publisher (mqtt_proxy/ha_discovery.py).       *)
(*                                                                         *)
(* Strings are TLA+ strings (Len, SubSeq and \o work on them), so prefix,  *)
(* suffix and substring tests and split/join are computed on characters.   *)
(***************************************************************************)
EXTENDS Integers, Sequences, FiniteSets, TLC

VARIABLES
    phase,                  \* position of ProxyService.run()
    allow_prefix,           \* self.allow_prefix
    printer_keys,           \* insertion order of self.printers_by_key
    printers_by_key,        \* self.printers_by_key
    printer_objects_by_key, \* self.printer_objects_by_key (cloud library objects)
    mqtt_client,            \* self.api._mqtt_client is not None
    local_call,             \* what the last _on_local_message call did
    retained,               \* the retained messages of the local broker
    cache,                  \* HADiscoveryPublisher._cache
    cache_file,             \* the file at cache_path
    cloud_call,             \* the _on_cloud_printer_update call in progress
    notifications,          \* the cloud notifications taken so far
    auth,                   \* what check_api_tokens answered in setup_auth
    signalled,              \* the cloud library made its "subscribed" call
                            \* for the connection it has
    subscribed,             \* the calls of _on_mqtt_subscribed in this run
    timers,                 \* the started threading.Timer objects not yet run
    probes,                 \* the retry getInfo requests sent, per device
    mirror_call,            \* what the last _mirror_raw_to_local call did
    ace_seen                \* per device: where its accessory data of this
                            \* run came from ("none", "full", "partial")

registry_vars == <<printer_keys, printers_by_key, printer_objects_by_key>>
ha_vars == <<retained, cache, cache_file, cloud_call, notifications>>
retry_vars == <<signalled, subscribed, timers, probes>>

vars == <<phase, allow_prefix, printer_keys, printers_by_key,
          printer_objects_by_key, mqtt_client, local_call,
          retained, cache, cache_file, cloud_call, notifications,
          auth, signalled, subscribed, timers, probes, mirror_call, ace_seen>>

-----------------------------------------------------------------------------
(* Python string helpers *)

startswith(s, p) == Len(p) <= Len(s) /\ SubSeq(s, 1, Len(p)) = p

endswith(s, p) == Len(p) <= Len(s) /\ SubSeq(s, Len(s) - Len(p) + 1, Len(s)) = p

contains(s, sub) ==
    \E i \in 1..(Len(s) - Len(sub) + 1) : SubSeq(s, i, i + Len(sub) - 1) = sub

\* position of the first "/" of s, 0 when there is none
FirstSlash(s) ==
    IF \E i \in 1..Len(s) : SubSeq(s, i, i) = "/"
    THEN CHOOSE i \in 1..Len(s) :
            /\ SubSeq(s, i, i) = "/"
            /\ \A j \in 1..(i - 1) : SubSeq(s, j, j) # "/"
    ELSE 0

RECURSIVE split(_)
\* s.split("/")
split(s) ==
    LET i == FirstSlash(s)
    IN  IF i = 0 THEN <<s>>
        ELSE <<SubSeq(s, 1, i - 1)>> \o split(SubSeq(s, i + 1, Len(s)))

RECURSIVE join(_)
\* "/".join(parts)
join(parts) ==
    IF Len(parts) = 0 THEN ""
    ELSE IF Len(parts) = 1 THEN parts[1]
    ELSE parts[1] \o "/" \o join(Tail(parts))

\* parts.index(x): 1-based position of the first element equal to x, 0 when
\* list.index would raise ValueError
index(parts, x) ==
    IF \E i \in 1..Len(parts) : parts[i] = x
    THEN CHOOSE i \in 1..Len(parts) :
            /\ parts[i] = x
            /\ \A j \in 1..(i - 1) : parts[j] # x
    ELSE 0

-----------------------------------------------------------------------------
(* JSON values as Python sees them after json.loads.  Every value has the  *)
(* same three fields; items holds the members of an array (k = "") or of   *)
(* an object.                                                              *)

JNull       == [t |-> "null", s |-> "",  items |-> <<>>]
JBool(b)    == [t |-> "bool", s |-> IF b THEN "true" ELSE "false", items |-> <<>>]
JNum(n)     == [t |-> "num",  s |-> ToString(n), items |-> <<>>]
JStr(x)     == [t |-> "str",  s |-> x,   items |-> <<>>]
JArr(vals)  == [t |-> "arr",  s |-> "",
                items |-> [i \in 1..Len(vals) |-> [k |-> "", v |-> vals[i]]]]
JObj(pairs) == [t |-> "obj",  s |-> "",  items |-> pairs]
Member(k, v) == [k |-> k, v |-> v]

\* isinstance(v, dict)
isinstance_dict(v) == v.t = "obj"

\* d.get(k) on a dict: None when the key is absent
dict_get(d, k) ==
    IF \E i \in 1..Len(d.items) : d.items[i].k = k
    THEN d.items[CHOOSE i \in 1..Len(d.items) : d.items[i].k = k].v
    ELSE JNull

\* Python truthiness
truthy(v) ==
    CASE v.t = "null" -> FALSE
      [] v.t = "bool" -> v.s = "true"
      [] v.t = "num"  -> v.s # "0"
      [] v.t = "str"  -> v.s # ""
      [] OTHER        -> Len(v.items) > 0

RECURSIVE JoinComma(_)
JoinComma(strs) ==
    IF Len(strs) = 0 THEN ""
    ELSE IF Len(strs) = 1 THEN strs[1]
    ELSE strs[1] \o ", " \o JoinComma(Tail(strs))

RECURSIVE json_dumps(_)
\* json.dumps(v) with the default separators
json_dumps(v) ==
    CASE v.t = "null" -> "null"
      [] v.t = "bool" -> v.s
      [] v.t = "num"  -> v.s
      [] v.t = "str"  -> "\"" \o v.s \o "\""
      [] v.t = "arr"  ->
            "[" \o JoinComma([i \in 1..Len(v.items) |-> json_dumps(v.items[i].v)]) \o "]"
      [] v.t = "obj"  ->
            "{" \o JoinComma([i \in 1..Len(v.items) |->
                     "\"" \o v.items[i].k \o "\": " \o json_dumps(v.items[i].v)]) \o "}"

RECURSIVE py_repr(_)
\* repr(v)
py_repr(v) ==
    CASE v.t = "null" -> "None"
      [] v.t = "bool" -> IF v.s = "true" THEN "True" ELSE "False"
      [] v.t = "num"  -> v.s
      [] v.t = "str"  -> "'" \o v.s \o "'"
      [] v.t = "arr"  ->
            "[" \o JoinComma([i \in 1..Len(v.items) |-> py_repr(v.items[i].v)]) \o "]"
      [] v.t = "obj"  ->
            "{" \o JoinComma([i \in 1..Len(v.items) |->
                     "'" \o v.items[i].k \o "': " \o py_repr(v.items[i].v)]) \o "}"

\* str(v)
py_str(v) == IF v.t = "str" THEN v.s ELSE py_repr(v)


-----------------------------------------------------------------------------
(* Configuration and the printers the cloud account holds *)

\* default of opts["allow_publish_prefix"]
DefaultAllowPrefix == "anycubic/anycubicCloud/v1/printer/public/"

\* the literal the structured publish path builds its topic from
PublishTopicPrefix == "anycubic/anycubicCloud/v1/printer/public/"

\* default of local_mqtt.base_topic
local_prefix == "anycubic_cloud_proxy"

\* values of opts["allow_publish_prefix"] the model is run with
AllowPrefixes == {DefaultAllowPrefix, "anycubic/", "a/b/"}

\* Python's None where a string is expected (an absent name, an absent
\* notification tag)
PyNone == "<None>"

\* keys, machine types, names and models of the printers list_my_printers can
\* return
CloudKeys == <<"k1", "k2">>
MachineType == [k \in {"k1", "k2"} |-> IF k = "k1" THEN "20021" ELSE "20024"]
PrinterName == [k \in {"k1", "k2"} |-> IF k = "k1" THEN "Kobra" ELSE PyNone]
PrinterModel == [k \in {"k1", "k2"} |-> IF k = "k1" THEN "Kobra 3" ELSE PyNone]

\* the printer lists list_my_printers returns in the model
Fleets == {SubSeq(CloudKeys, 1, n) : n \in 1..Len(CloudKeys)}

\* a printer object as the cloud library hands it over
NewPrinter(k) ==
    [key            |-> k,
     name           |-> PrinterName[k],
     model          |-> PrinterModel[k],
     machine_type   |-> MachineType[k],
     current_status |-> "free",
     printer_online |-> TRUE,
     remaining_min  |-> [none |-> TRUE, n |-> 0],
     multi_color_box |-> <<>>]

Range(f) == {f[i] : i \in DOMAIN f}

-----------------------------------------------------------------------------
(* Local-bus messages *)

NoRaw == [text |-> "", ok |-> FALSE, val |-> JNull, utf8 |-> TRUE]

\* a payload that is a JSON document: its text as sent and its parsed value
Doc(text, val) == [text |-> text, ok |-> TRUE, val |-> val, utf8 |-> TRUE]

\* a payload json.loads rejects
Text(text) == [text |-> text, ok |-> FALSE, val |-> JNull, utf8 |-> TRUE]

\* a payload whose bytes are not UTF-8: it has no text
Undecodable == [text |-> "", ok |-> FALSE, val |-> JNull, utf8 |-> FALSE]

Envelope(topic, payload) ==
    JObj(<<Member("topic", JStr(topic)), Member("payload", payload)>>)

RawPayloads ==
    { Text("hello"),
      Doc("{\"topic\":\"anycubic/anycubicCloud/v1/printer/public/20021/k1/print\",\"payload\":{\"a\":1}}",
          Envelope(DefaultAllowPrefix \o "20021/k1/print",
                   JObj(<<Member("a", JNum(1))>>))),
      Doc("{\"topic\":\"a/b/c\",\"payload\":\"on\"}", Envelope("a/b/c", JStr("on"))),
      Doc("{\"topic\":\"a/x/c\",\"payload\":[\"x\"]}",
          Envelope("a/x/c", JArr(<<JStr("x")>>))),
      Doc("{\"topic\":\"a/b/c\"}", JObj(<<Member("topic", JStr("a/b/c"))>>)),
      Doc("{\"x\":1}", JObj(<<Member("x", JNum(1))>>)),
      Doc("[1]", JArr(<<JNum(1)>>)),
      Doc("[\"x\"]", JArr(<<JStr("x")>>)),
      Doc("5", JNum(5)),
      Undecodable }

PublishTopic(key, endpoint) ==
    local_prefix \o "/to_cloud/publish/" \o key \o "/" \o endpoint

LocalTopics ==
    { local_prefix \o "/to_cloud/raw",
      local_prefix \o "/to_cloud/publish/k1",
      PublishTopic("k1", "print"),
      PublishTopic("k1", "a/b"),
      PublishTopic("k1", "raw"),
      PublishTopic("k2", "x/raw"),
      PublishTopic("zz", "print"),
      PublishTopic("zz", "x/raw"),
      local_prefix \o "/status" }

CloudMsg(topic, payload) == [topic |-> topic, payload |-> payload]

Outcome(branch, forwarded, warnings, errors) ==
    [branch |-> branch, forwarded |-> forwarded,
     warnings |-> warnings, errors |-> errors]

\* the payload handed to the cloud client
mqtt_payload(payload) ==
    IF isinstance_dict(payload) THEN json_dumps(payload) ELSE py_str(payload)

\* a plausible slip: the publish is made without looking at the client
Forward_unguarded(branch, topic, payload) ==
    Outcome(branch, <<CloudMsg(topic, mqtt_payload(payload))>>, 0, 0)

\* api._mqtt_client.publish when the client exists, one error log otherwise
Forward(branch, topic, payload) ==
    IF mqtt_client
    THEN Outcome(branch, <<CloudMsg(topic, mqtt_payload(payload))>>, 0, 0)
    ELSE Outcome(branch, <<>>, 0, 1)

\* a plausible slip: the raw branch forwards without the allow-list test
raw_allowed_unchecked(cloud_topic) == TRUE

\* the allow-list test of the raw branch
raw_allowed(cloud_topic) == startswith(cloud_topic, allow_prefix)

\* a plausible slip: the envelope topic is re-rooted under the allow-list prefix
cloud_topic_rerooted(data) ==
    LET t == dict_get(data, "topic")
    IN  allow_prefix \o py_str(IF truthy(t) THEN t ELSE JStr(""))

\* str(data.get("topic") or "")
cloud_topic_of(data) ==
    LET t == dict_get(data, "topic")
    IN  py_str(IF truthy(t) THEN t ELSE JStr(""))

\* the branch taken for topics ending in "/raw"
on_local_raw(raw) ==
    IF ~raw.ok THEN Outcome("raw", <<>>, 0, 1)          \* json.loads raises
    ELSE IF ~isinstance_dict(raw.val)
    THEN Outcome("raw", <<>>, 0, 1)                      \* data.get raises
    ELSE
        LET data == raw.val
            cloud_topic == cloud_topic_of(data)
            payload == dict_get(data, "payload")
        IN  IF ~raw_allowed(cloud_topic)
            THEN Outcome("raw", <<>>, 1, 0)
            ELSE Forward("raw", cloud_topic, payload)

\* a plausible slip: the topic is built with the status of the moment, which
\* the cloud thread rewrites
full_topic_with_status(printer_info, endpoint) ==
    PublishTopicPrefix \o printer_info.machine_type \o "/" \o printer_info.key
        \o "/" \o printer_info.status \o "/" \o endpoint

\* the topic the structured publish path builds
full_topic(printer_info, endpoint) ==
    PublishTopicPrefix \o printer_info.machine_type \o "/" \o printer_info.key
        \o "/" \o endpoint

\* the branch taken for topics containing "/to_cloud/publish/"
on_local_publish(topic, raw) ==
    LET parts == split(topic)
        idx == index(parts, "publish")
    IN  IF idx = 0 \/ idx + 1 > Len(parts)
        THEN Outcome("publish", <<>>, 0, 1)
        ELSE
            LET printer_key == parts[idx + 1]
                endpoint == join(SubSeq(parts, idx + 2, Len(parts)))
            IN  IF printer_key \notin DOMAIN printers_by_key
                THEN Outcome("publish", <<>>, 0, 1)
                ELSE
                    LET payload_obj == IF raw.ok THEN raw.val ELSE JStr(raw.text)
                        ft == full_topic(printers_by_key[printer_key], endpoint)
                    IN  IF ~startswith(ft, allow_prefix)
                        THEN Outcome("publish", <<>>, 1, 0)
                        ELSE Forward("publish", ft, payload_obj)

\* which branch of _on_local_message a topic takes
is_raw_topic(topic) == endswith(topic, "/raw")

\* message.payload.decode("utf-8") comes before the try: its
\* UnicodeDecodeError leaves the callback
on_local_message(topic, raw) ==
    IF ~raw.utf8 THEN Outcome("raised", <<>>, 0, 0)
    ELSE IF is_raw_topic(topic) THEN on_local_raw(raw)
    ELSE IF contains(topic, "/to_cloud/publish/") THEN on_local_publish(topic, raw)
    ELSE Outcome("ignored", <<>>, 0, 0)


-----------------------------------------------------------------------------
(* Cloud notifications and the printer objects of the cloud library *)

MsgTypes  == {"print", "multiColorBox", "status"}
Actions   == {PyNone, "getInfo", "setDry"}
Endpoints == {PyNone, "report", "file"}

\* an optional int attribute of a printer object
NoInt == [none |-> TRUE, n |-> 0]
SomeInt(n) == [none |-> FALSE, n |-> n]

\* one entry of pobj.multi_color_box
Box(id, connected, temperature) ==
    [box_id |-> id, is_connected |-> connected, current_temperature |-> temperature]

\* the states the library can put a printer object into
PrinterStates(k) ==
    { NewPrinter(k),
      [NewPrinter(k) EXCEPT !.current_status = "busy",
                            !.remaining_min = SomeInt(42),
                            !.multi_color_box = <<Box(1, TRUE, 25)>>],
      [NewPrinter(k) EXCEPT !.current_status = "busy",
                            !.printer_online = FALSE,
                            !.remaining_min = SomeInt(7),
                            !.multi_color_box = <<Box(1, FALSE, 25), Box(2, TRUE, 30)>>] }

\* the cloud notifications a run takes
MaxNotifications == 2

\* the values time.time() returns in the model (seconds since the epoch)
Times == {1700000000, 1700086399}

-----------------------------------------------------------------------------
(* time.strftime("%Y-%m-%dT%H:%M:%SZ", time.gmtime(ts)) *)

Pad2(n) == IF n < 10 THEN "0" \o ToString(n) ELSE ToString(n)

\* the civil date of day number z (days since 1970-01-01)
CivilFromDays(z) ==
    LET zz  == z + 719468
        era == zz \div 146097
        doe == zz - era * 146097
        yoe == (doe - doe \div 1460 + doe \div 36524 - doe \div 146096) \div 365
        doy == doe - (365 * yoe + yoe \div 4 - yoe \div 100)
        mp  == (5 * doy + 2) \div 153
        d   == doy - (153 * mp + 2) \div 5 + 1
        m   == IF mp < 10 THEN mp + 3 ELSE mp - 9
        y   == yoe + era * 400 + (IF m <= 2 THEN 1 ELSE 0)
    IN  [year |-> y, month |-> m, day |-> d]

strftime_gmtime(ts) ==
    LET date == CivilFromDays(ts \div 86400)
        secs == ts % 86400
    IN  ToString(date.year) \o "-" \o Pad2(date.month) \o "-" \o Pad2(date.day)
            \o "T" \o Pad2(secs \div 3600) \o ":" \o Pad2((secs % 3600) \div 60)
            \o ":" \o Pad2(secs % 60) \o "Z"

-----------------------------------------------------------------------------
(* HADiscoveryPublisher: topics *)

ha_sensor_state_topic(printer_key) ==
    local_prefix \o "/printers/" \o printer_key \o "/status"

ha_online_state_topic(printer_key) ==
    local_prefix \o "/printers/" \o printer_key \o "/online"

ha_job_state_topic(printer_key, sensor_id) ==
    local_prefix \o "/printers/" \o printer_key \o "/job/" \o sensor_id

ha_ace_state_topic(printer_key, box_index) ==
    local_prefix \o "/printers/" \o printer_key \o "/ace_pro/"
        \o ToString(box_index + 1) \o "/state"

ha_ace_attrs_topic(printer_key, box_index) ==
    local_prefix \o "/printers/" \o printer_key \o "/ace_pro/"
        \o ToString(box_index + 1) \o "/attrs"

\* the slot indices publish_all_ace and publish_ace_from_cache walk
BoxIndices == <<0, 1>>

\* the keys of the values dict of _collect_job_values, in insertion order
JobIds == <<"progress", "elapsed_min", "remaining_min", "total_layers",
            "current_layer", "speed_mode", "speed_pct", "z_thick", "status",
            "preview_url", "eta">>

-----------------------------------------------------------------------------
(* HADiscoveryPublisher: publishes *)

\* no publish raises
NoFail == ""

\* one local_client.publish(topic, payload, qos=0, retain=...) call; it raises
\* when the topic is the one the broker client rejects in this call
Pub(topic, payload, retain, fail) ==
    [topic |-> topic, payload |-> payload, retain |-> retain, ok |-> topic # fail]

\* the list a loop builds, one element per iteration
List(f) == f \o <<>>

\* the calls of nested loops, in order
RECURSIVE Flatten(_)
Flatten(seqs) == IF Len(seqs) = 0 THEN <<>> ELSE Head(seqs) \o Flatten(Tail(seqs))

\* publish_all_printer_status over the registry reg
publish_all_printer_status(keys, reg, fail) ==
    List([i \in 1..Len(keys) |->
            Pub(ha_sensor_state_topic(keys[i]), reg[keys[i]].status, TRUE, fail)])

online_val(pobj) == IF pobj.printer_online THEN "online" ELSE "offline"

\* publish_all_printer_online
publish_all_printer_online(keys, objs, fail) ==
    List([i \in 1..Len(keys) |->
            Pub(ha_online_state_topic(keys[i]),
                IF keys[i] \in DOMAIN objs THEN online_val(objs[keys[i]]) ELSE "unknown",
                TRUE, fail)])

\* a plausible slip: the remaining minutes are added as seconds
eta_iso_minutes(pobj, now) ==
    IF pobj.remaining_min.none THEN JNull
    ELSE JStr(strftime_gmtime(now + pobj.remaining_min.n))

\* the ETA of _collect_job_values
eta_iso(pobj, now) ==
    IF pobj.remaining_min.none THEN JNull
    ELSE JStr(strftime_gmtime(now + pobj.remaining_min.n * 60))

\* _collect_job_values: the attributes the model does not follow are None
collect_job_values(pobj, now) ==
    [sid \in Range(JobIds) |->
        CASE sid = "remaining_min" ->
                IF pobj.remaining_min.none THEN JNull ELSE JNum(pobj.remaining_min.n)
          [] sid = "eta" -> eta_iso(pobj, now)
          [] OTHER -> JNull]

\* the payload of one job sensor
job_payload(val) ==
    IF val.t = "null" THEN ""
    ELSE IF val.t \in {"obj", "arr"} THEN json_dumps(val)
    ELSE py_str(val)

\* _publish_job_sensors
publish_job_sensors(printer_key, objs, now, fail) ==
    IF printer_key \notin DOMAIN objs THEN <<>>
    ELSE LET values == collect_job_values(objs[printer_key], now)
         IN  List([i \in 1..Len(JobIds) |->
                    Pub(ha_job_state_topic(printer_key, JobIds[i]),
                        job_payload(values[JobIds[i]]), TRUE, fail)])

\* publish_all_job_sensors
publish_all_job_sensors(keys, objs, now, fail) ==
    Flatten(List([i \in 1..Len(keys) |->
                    publish_job_sensors(keys[i], objs, now, fail)]))

\* whether pobj has a multi_color_box entry at box_index
has_box(pobj, box_index) == Len(pobj.multi_color_box) > box_index

\* _collect_ace_attrs: None (JNull) when the slot has no telemetry
collect_ace_attrs(objs, printer_key, box_index) ==
    IF printer_key \notin DOMAIN objs THEN JNull
    ELSE IF ~has_box(objs[printer_key], box_index) THEN JNull
    ELSE LET mcb == objs[printer_key].multi_color_box[box_index + 1]
         IN  JObj(<<Member("box_id", JNum(mcb.box_id)),
                    Member("is_connected", JBool(mcb.is_connected)),
                    Member("loaded_slot", JNull),
                    Member("slots_count", JNum(4)),
                    Member("spool_info", JArr(<<>>)),
                    Member("temperature", JNum(mcb.current_temperature)),
                    Member("humidity", JNum(0)),
                    Member("auto_feed", JBool(FALSE))>>)

\* a plausible slip: a slot without telemetry gets the default of the online
\* sensor
ace_state_unknown(objs, printer_key, box_index) ==
    IF printer_key \in DOMAIN objs /\ has_box(objs[printer_key], box_index)
    THEN IF objs[printer_key].multi_color_box[box_index + 1].is_connected
         THEN "active" ELSE "inactive"
    ELSE "unknown"

\* the state string of _publish_ace_state_and_attrs
ace_state(objs, printer_key, box_index) ==
    IF printer_key \in DOMAIN objs /\ has_box(objs[printer_key], box_index)
    THEN IF objs[printer_key].multi_color_box[box_index + 1].is_connected
         THEN "active" ELSE "inactive"
    ELSE "inactive"

\* the cache entry _publish_ace_state_and_attrs stores for a slot
ace_entry(objs, printer_key, box_index) ==
    LET attrs == collect_ace_attrs(objs, printer_key, box_index)
    IN  [state |-> ace_state(objs, printer_key, box_index),
         attrs |-> IF truthy(attrs) THEN attrs ELSE JObj(<<>>)]

\* _publish_ace_state_and_attrs: the publishes it makes and whether it reaches
\* the cache update (it does not when a publish raises)
publish_ace_state_and_attrs(objs, printer_key, box_index, fail) ==
    LET attrs == collect_ace_attrs(objs, printer_key, box_index)
        st == Pub(ha_ace_state_topic(printer_key, box_index),
                  ace_state(objs, printer_key, box_index), TRUE, fail)
        at == Pub(ha_ace_attrs_topic(printer_key, box_index),
                  json_dumps(attrs), TRUE, fail)
    IN  IF ~st.ok THEN [pubs |-> <<st>>, cached |-> FALSE]
        ELSE IF attrs.t = "null" THEN [pubs |-> <<st>>, cached |-> TRUE]
        ELSE [pubs |-> <<st, at>>, cached |-> at.ok]

\* the slots publish_all_ace walks, in order
Slots(keys) ==
    Flatten(List([i \in 1..Len(keys) |->
                    List([j \in 1..Len(BoxIndices) |-> <<keys[i], BoxIndices[j]>>])]))

\* str(box_index)
box_key(box_index) == ToString(box_index)

\* self._cache after the slots in `done` have been stored
cache_after(c, objs, done) ==
    LET ks == DOMAIN c \cup {s[1] : s \in done}
    IN  [k \in ks |->
            LET old == IF k \in DOMAIN c THEN c[k].ace ELSE <<>>
                new == {s[2] : s \in {x \in done : x[1] = k}}
            IN  [ace |-> [b \in DOMAIN old \cup {box_key(i) : i \in new} |->
                            IF \E i \in new : box_key(i) = b
                            THEN ace_entry(objs, k, CHOOSE i \in new : box_key(i) = b)
                            ELSE old[b]]]]

\* the publish loop of publish_all_ace (the save follows it)
ace_loop(slots, objs, c, fail, done) ==
    [pubs |-> Flatten(List([i \in 1..Len(slots) |->
                 publish_ace_state_and_attrs(objs, slots[i][1], slots[i][2], fail).pubs])),
     recomputed |-> done,
     cache |-> cache_after(c, objs, done)]

\* the slots whose call reaches its cache update
stored_slots(slots, objs, fail) ==
    {s \in Range(slots) : publish_ace_state_and_attrs(objs, s[1], s[2], fail).cached}

\* publish_all_ace up to its save_cache call
publish_all_ace(keys, objs, c, fail) ==
    ace_loop(Slots(keys), objs, c, fail, stored_slots(Slots(keys), objs, fail))

\* publish_ace_from_cache
publish_ace_from_cache(keys, c) ==
    LET slots == Slots(keys)
        one(s) ==
            IF s[1] \in DOMAIN c /\ box_key(s[2]) \in DOMAIN c[s[1]].ace
            THEN LET cached == c[s[1]].ace[box_key(s[2])]
                 IN  <<Pub(ha_ace_state_topic(s[1], s[2]), cached.state, TRUE, NoFail),
                       Pub(ha_ace_attrs_topic(s[1], s[2]), json_dumps(cached.attrs),
                           TRUE, NoFail)>>
            ELSE <<>>
    IN  Flatten(List([i \in 1..Len(slots) |-> one(slots[i])]))

-----------------------------------------------------------------------------
(* HADiscoveryPublisher: discovery descriptors *)

ha_sensor_config_topic(printer_key) ==
    "homeassistant/sensor/anycubic_" \o printer_key \o "_status/config"

ha_online_config_topic(printer_key) ==
    "homeassistant/binary_sensor/anycubic_" \o printer_key \o "_online/config"

ha_ace_config_topic(printer_key, box_index) ==
    "homeassistant/sensor/anycubic_" \o printer_key \o "_ace_pro_"
        \o ToString(box_index + 1) \o "_spools/config"

ha_job_config_topic(printer_key, sensor_id) ==
    "homeassistant/sensor/anycubic_" \o printer_key \o "_job_" \o sensor_id \o "/config"

\* x or y, for strings that may be None
str_or(x, y) == IF x = PyNone \/ x = "" THEN y ELSE x

\* a plausible slip: the status of the moment goes into the device name
display_name_with_status(pinfo) ==
    str_or(pinfo.name, str_or(pinfo.model, "Anycubic " \o pinfo.key))
        \o " (" \o pinfo.status \o ")"

\* pinfo.get("name") or pinfo.get("model") or f"Anycubic {key}"
display_name(pinfo) == str_or(pinfo.name, str_or(pinfo.model, "Anycubic " \o pinfo.key))

\* the device dict of a descriptor
device_dict(pinfo) ==
    JObj(<<Member("identifiers", JArr(<<JStr("anycubic_" \o pinfo.key)>>)),
           Member("name", JStr(display_name(pinfo))),
           Member("manufacturer", JStr("Anycubic")),
           Member("model", JStr(str_or(pinfo.model, "Printer")))>>)

\* _publish_ha_discovery_for_printer
publish_ha_discovery_for_printer(pinfo) ==
    <<Pub(ha_sensor_config_topic(pinfo.key),
          json_dumps(JObj(<<Member("name", JStr(display_name(pinfo) \o " Status")),
                            Member("unique_id", JStr("anycubic_" \o pinfo.key \o "_status")),
                            Member("state_topic", JStr(ha_sensor_state_topic(pinfo.key))),
                            Member("icon", JStr("mdi:printer-3d")),
                            Member("device", device_dict(pinfo))>>)),
          TRUE, NoFail),
      Pub(ha_online_config_topic(pinfo.key),
          json_dumps(JObj(<<Member("name", JStr(display_name(pinfo) \o " Online")),
                            Member("unique_id", JStr("anycubic_" \o pinfo.key \o "_online")),
                            Member("state_topic", JStr(ha_online_state_topic(pinfo.key))),
                            Member("device_class", JStr("connectivity")),
                            Member("payload_on", JStr("online")),
                            Member("payload_off", JStr("offline")),
                            Member("device", device_dict(pinfo))>>)),
          TRUE, NoFail)>>

\* the accessory descriptors of publish_ha_discovery
publish_ace_discovery(key, info) ==
    List([j \in 1..Len(BoxIndices) |->
        LET idx == BoxIndices[j]
            human_idx == ToString(idx + 1)
        IN  Pub(ha_ace_config_topic(key, idx),
                json_dumps(JObj(<<
                    Member("name", JStr(display_name(info) \o " Ace Pro " \o human_idx
                                            \o " Spools")),
                    Member("unique_id", JStr("anycubic_" \o key \o "_ace_pro_"
                                                 \o human_idx \o "_spools")),
                    Member("state_topic", JStr(ha_ace_state_topic(key, idx))),
                    Member("json_attributes_topic", JStr(ha_ace_attrs_topic(key, idx))),
                    Member("icon", JStr("mdi:palette")),
                    Member("device", device_dict(info))>>)),
                TRUE, NoFail)])

JobDef(id, name, unit, device_class, icon) ==
    [id |-> id, name |-> name, unit |-> unit, device_class |-> device_class,
     icon |-> icon]

\* job_defs of publish_ha_discovery, the name without the printer's name
job_defs ==
    <<JobDef("status", " Job Status", PyNone, PyNone, "mdi:printer-3d"),
      JobDef("progress", " Job Progress", "%", PyNone, "mdi:progress-percent"),
      JobDef("current_layer", " Current Layer", PyNone, PyNone, "mdi:layers"),
      JobDef("total_layers", " Total Layers", PyNone, PyNone, "mdi:layers-outline"),
      JobDef("elapsed_min", " Elapsed (min)", "min", PyNone, "mdi:timer"),
      JobDef("remaining_min", " Remaining (min)", "min", PyNone, "mdi:timer-sand"),
      JobDef("eta", " ETA", PyNone, "timestamp", "mdi:calendar-clock"),
      JobDef("speed_mode", " Speed Mode", PyNone, PyNone, "mdi:speedometer"),
      JobDef("speed_pct", " Speed (%)", "%", PyNone, "mdi:speedometer"),
      JobDef("z_thick", " Layer Thickness (mm)", "mm", PyNone,
             "mdi:arrow-collapse-vertical"),
      JobDef("preview_url", " Preview URL", PyNone, PyNone, "mdi:image")>>

\* the job descriptors of publish_ha_discovery
publish_job_discovery(key, info) ==
    List([j \in 1..Len(job_defs) |->
        LET jd == job_defs[j]
        IN  Pub(ha_job_config_topic(key, jd.id),
                json_dumps(JObj(
                    <<Member("name", JStr(display_name(info) \o jd.name)),
                      Member("unique_id", JStr("anycubic_" \o key \o "_job_" \o jd.id)),
                      Member("state_topic", JStr(ha_job_state_topic(key, jd.id))),
                      Member("icon", JStr(jd.icon)),
                      Member("device", device_dict(info))>>
                    \o (IF jd.unit = PyNone THEN <<>>
                        ELSE <<Member("unit_of_measurement", JStr(jd.unit))>>)
                    \o (IF jd.device_class = PyNone THEN <<>>
                        ELSE <<Member("device_class", JStr(jd.device_class))>>))),
                TRUE, NoFail)])

\* publish_ha_discovery
publish_ha_discovery(keys, reg) ==
    Flatten(List([i \in 1..Len(keys) |->
        publish_ha_discovery_for_printer(reg[keys[i]])
            \o publish_ace_discovery(keys[i], reg[keys[i]])
            \o publish_job_discovery(keys[i], reg[keys[i]])]))

-----------------------------------------------------------------------------
(* The cache file *)

NoFile == [kind |-> "missing", doc |-> <<>>]

\* what a save_cache call can run into
SaveOutcomes == {"ok", "open_fails", "write_fails", "crash_after_open", "crash_in_write"}

\* the file after save_cache: open(path, "w") truncates, json.dump then writes
save_cache(file, c, outcome) ==
    CASE outcome = "ok"               -> [kind |-> "doc", doc |-> c]
      [] outcome = "open_fails"       -> file
      [] outcome = "write_fails"      -> [kind |-> "truncated", doc |-> <<>>]
      [] outcome = "crash_after_open" -> [kind |-> "empty", doc |-> <<>>]
      [] outcome = "crash_in_write"   -> [kind |-> "truncated", doc |-> <<>>]

\* a plausible slip: save_cache without its except clause, and the error of
\* the write ends the run
after_save_uncaught(ph, outcome) ==
    IF outcome \in {"open_fails", "write_fails", "crash_after_open", "crash_in_write"}
    THEN "crashed" ELSE ph

\* where run() stands after a save_cache call: an I/O error is caught and
\* logged inside save_cache, the process dying in the call ends the run
after_save(ph, outcome) ==
    IF outcome \in {"crash_after_open", "crash_in_write"} THEN "crashed" ELSE ph

\* self._cache after load_cache
load_cache(file) == IF file.kind = "doc" THEN file.doc ELSE <<>>

\* a plausible slip: load_cache without its except clause
load_cache_uncaught(file) == file.kind \in {"unreadable", "empty", "truncated"}

\* whether an exception leaves load_cache: open and json.load run inside
\* try/except Exception
load_cache_raises(file) == FALSE

\* the retained messages of the local broker after the publishes pubs
RECURSIVE deliver(_, _)
deliver(ret, pubs) ==
    IF Len(pubs) = 0 THEN ret
    ELSE deliver(IF Head(pubs).ok /\ Head(pubs).retain
                 THEN (Head(pubs).topic :> Head(pubs).payload) @@ ret
                 ELSE ret,
                 Tail(pubs))

-----------------------------------------------------------------------------
(* update_from_cloud *)

\* a plausible slip: the endpoint is not looked at
job_wanted_any_endpoint(msg_type, endpoint) == msg_type = "print"

\* the job sensors are republished
job_wanted(msg_type, endpoint) ==
    msg_type = "print" /\ (endpoint = PyNone \/ endpoint = "report")

\* a plausible slip: partial accessory frames are not held back
ace_wanted_always(msg_type, action) == TRUE

\* the accessory sensors are republished
ace_wanted(msg_type, action) ==
    ~(msg_type = "multiColorBox" /\ action # "getInfo")

\* a plausible slip: the registry keeps the status it had
refresh_status_skipped(reg, objs) == reg

\* the status refresh at the head of update_from_cloud
refresh_status(reg, objs) ==
    [k \in DOMAIN reg |->
        IF k \in DOMAIN objs
        THEN [reg[k] EXCEPT !.status = objs[k].current_status]
        ELSE reg[k]]

\* update_from_cloud up to the save
\* update_from_cloud after the status refresh; ace is what its accessory
\* branch does
publish_refreshed(keys, reg2, objs, ace, msg_type, action, endpoint, now, fail) ==
    [registry |-> reg2,
     pubs |-> publish_all_printer_status(keys, reg2, fail)
                 \o publish_all_printer_online(keys, objs, fail)
                 \o (IF job_wanted(msg_type, endpoint)
                     THEN publish_all_job_sensors(keys, objs, now, fail) ELSE <<>>)
                 \o ace.pubs,
     save |-> ace_wanted(msg_type, action),
     recomputed |-> ace.recomputed,
     cache |-> ace.cache]

update_from_cloud(keys, reg, objs, c, msg_type, action, endpoint, now, fail) ==
    publish_refreshed(keys, refresh_status(reg, objs), objs,
                      IF ace_wanted(msg_type, action)
                      THEN publish_all_ace(keys, objs, c, fail)
                      ELSE [pubs |-> <<>>, recomputed |-> {}, cache |-> c],
                      msg_type, action, endpoint, now, fail)

-----------------------------------------------------------------------------
(* run(): bootstrap, then the clients *)

Idle == [stage |-> "idle", msg_type |-> PyNone, action |-> PyNone,
         endpoint |-> PyNone, pubs |-> <<>>, saved |-> FALSE,
         outcome |-> "none", recomputed |-> {}, now |-> 0, refreshed |-> 0]

\* no _mirror_raw_to_local call yet
NoMirror == [topic |-> "", payload |-> "", pubs |-> <<>>, errors |-> 0]

\* the origin of the accessory data a device object holds after one more cloud
\* message: a complete frame (multiColorBox/getInfo), a partial frame that
\* changed the boxes, or what it was
seen_after(seen, msg_type, action, changed) ==
    IF msg_type = "multiColorBox" /\ action = "getInfo" THEN "full"
    ELSE IF ~changed THEN seen
    ELSE IF msg_type = "multiColorBox" THEN "partial"
    ELSE "full"

Init ==
    /\ phase = "created"
    /\ allow_prefix \in AllowPrefixes
    /\ printer_keys = <<>>
    /\ printers_by_key = <<>>
    /\ printer_objects_by_key = <<>>
    /\ mqtt_client = FALSE
    /\ local_call = [topic |-> "", raw |-> NoRaw, connected |-> FALSE]
                        @@ Outcome("none", <<>>, 0, 0)
    /\ retained = <<>>
    /\ cache = <<>>
    /\ cache_file = NoFile
    /\ cloud_call = Idle
    /\ notifications = 0
    /\ auth = "none"
    /\ signalled = FALSE
    /\ subscribed = 0
    /\ timers = <<>>
    /\ probes = <<>>
    /\ mirror_call = NoMirror
    /\ ace_seen = <<>>

\* the service constructed with the default allow-list prefix
InitDefault == Init /\ allow_prefix = DefaultAllowPrefix

\* a plausible slip: the answer of check_api_tokens is not looked at
after_setup_auth_unchecked(ok) == "booted"

\* where run() stands after setup_auth: bootstrap goes on, or RuntimeError
\* leaves run() and main()
after_setup_auth(ok) == IF ok THEN "booted" ELSE "failed"

\* setup_auth raises: run() ends with the exception
AuthFail ==
    /\ phase = "created"
    /\ auth' = "rejected"
    /\ phase' = after_setup_auth(FALSE)
    /\ UNCHANGED <<mirror_call, ace_seen, allow_prefix, registry_vars, mqtt_client, local_call, ha_vars,
                   retry_vars>>

\* _async_bootstrap: setup_auth succeeds, load_printers fills the registry
Bootstrap ==
    /\ phase = "created"
    /\ \E printers \in Fleets :
        /\ printer_keys' = printers
        /\ printers_by_key' =
              [k \in Range(printers) |->
                  [name |-> NewPrinter(k).name,
                   machine_type |-> NewPrinter(k).machine_type,
                   key |-> k,
                   model |-> NewPrinter(k).model,
                   status |-> NewPrinter(k).current_status]]
        /\ printer_objects_by_key' = [k \in Range(printers) |-> NewPrinter(k)]
    /\ auth' = "ok"
    /\ phase' = after_setup_auth(TRUE)
    /\ ace_seen' = [k \in DOMAIN printer_objects_by_key' |-> "none"]
    /\ UNCHANGED <<mirror_call, allow_prefix, mqtt_client, local_call, ha_vars, retry_vars>>

\* _ensure_local_client: the local loop runs from here on
EnsureLocalClient ==
    /\ phase = "booted"
    /\ phase' = "local_up"
    /\ UNCHANGED <<mirror_call, ace_seen, allow_prefix, registry_vars, mqtt_client, local_call, ha_vars,
                   auth, retry_vars>>

\* the rest of run() up to _start_anycubic_mqtt: the publisher is built (with
\* the local client, which exists by now), the cache is loaded, the discovery
\* descriptors and the initial states are published
StartPublisher ==
    /\ phase = "local_up"
    /\ \E now \in Times :
        LET c == load_cache(cache_file)
            pubs == publish_ha_discovery(printer_keys, printers_by_key)
                      \o publish_all_printer_status(printer_keys, printers_by_key, NoFail)
                      \o publish_all_printer_online(printer_keys,
                                                    printer_objects_by_key, NoFail)
                      \o publish_all_job_sensors(printer_keys,
                                                 printer_objects_by_key, now, NoFail)
                      \o publish_ace_from_cache(printer_keys, c)
        IN  IF load_cache_raises(cache_file)
            THEN phase' = "failed" /\ UNCHANGED <<cache, retained>>
            ELSE /\ cache' = c
                 /\ retained' = deliver(retained, pubs)
                 /\ phase' = "running"
    /\ UNCHANGED <<mirror_call, ace_seen, allow_prefix, registry_vars, mqtt_client, local_call,
                   cache_file, cloud_call, notifications, auth, retry_vars>>

\* a plausible slip: the local loop is started before the bootstrap
local_loop_runs_early(ph) == ph \in {"created", "booted", "local_up", "running", "stopping"}

\* the local loop calls _on_local_message from loop_start (in
\* _ensure_local_client) to loop_stop (in the shutdown)
local_loop_runs(ph) == ph \in {"local_up", "running", "stopping"}

\* the local client is connected: a publish reaches the broker
local_connected(ph) == ph \in {"local_up", "running", "stopping"}

\* the daemon thread of _start_anycubic_mqtt runs the cloud loop; the shutdown
\* does not stop it, it ends with the process
cloud_loop_runs(ph) == ph \in {"running", "stopping", "stopped"}

\* the cloud client of the library comes up / goes away
CloudConnect ==
    /\ cloud_loop_runs(phase)
    /\ ~mqtt_client
    /\ mqtt_client' = TRUE
    /\ UNCHANGED <<mirror_call, ace_seen, phase, allow_prefix, registry_vars, local_call, ha_vars,
                   auth, retry_vars>>

CloudDisconnect ==
    /\ cloud_loop_runs(phase)
    /\ mqtt_client
    /\ cloud_call.stage = "idle"
    /\ mqtt_client' = FALSE
    /\ signalled' = FALSE
    /\ UNCHANGED <<mirror_call, ace_seen, phase, allow_prefix, registry_vars, local_call, ha_vars,
                   auth, subscribed, timers, probes>>

\* _on_local_message, called by the local loop for one message
OnLocalMessageOf(topics, payloads) ==
    /\ local_loop_runs(phase)
    /\ \E topic \in topics, raw \in payloads :
          local_call' = [topic |-> topic, raw |-> raw, connected |-> mqtt_client]
                            @@ on_local_message(topic, raw)
    /\ UNCHANGED <<mirror_call, ace_seen, phase, allow_prefix, registry_vars, mqtt_client, ha_vars,
                   auth, retry_vars>>

\* the cloud library takes a message from the cloud bus, applies it to the
\* printer object it is about and is about to call _on_cloud_printer_update;
\* tags are the (msg_type, action, endpoint) triples the message can carry
CloudMessageOf(tags) ==
    /\ cloud_loop_runs(phase)
    /\ mqtt_client
    /\ cloud_call.stage = "idle"
    /\ notifications < MaxNotifications
    /\ notifications' = notifications + 1
    /\ \E k \in DOMAIN printer_objects_by_key :
       \E pobj \in PrinterStates(k), tag \in tags :
        /\ printer_objects_by_key' = [printer_objects_by_key EXCEPT ![k] = pobj]
        /\ cloud_call' = [Idle EXCEPT !.stage = "pending", !.msg_type = tag[1],
                                      !.action = tag[2], !.endpoint = tag[3]]
        /\ ace_seen' = [ace_seen EXCEPT ![k] =
                          seen_after(@, tag[1], tag[2],
                                     pobj.multi_color_box
                                        # printer_objects_by_key[k].multi_color_box)]
    /\ UNCHANGED <<mirror_call, phase, allow_prefix, printer_keys, printers_by_key, mqtt_client,
                   local_call, retained, cache, cache_file, auth, retry_vars>>

AllTags == MsgTypes \X Actions \X Endpoints

\* a complete accessory frame, a partial one, a print report
FrameTags == { <<"multiColorBox", "getInfo", PyNone>>,
               <<"multiColorBox", "setDry", PyNone>>,
               <<"print", PyNone, "report">> }

\* the accessory topics, whose publish can raise in an accessory cycle
AceTopics ==
    {ha_ace_state_topic(s[1], s[2]) : s \in Range(Slots(printer_keys))}
        \cup {ha_ace_attrs_topic(s[1], s[2]) : s \in Range(Slots(printer_keys))}

\* the status topic of the first device
StatusTopics == {ha_sensor_state_topic(printer_keys[1])}

\* _on_cloud_printer_update -> update_from_cloud, then (when the accessory
\* sensors were republished) save_cache; fails are the topics whose publish can
\* raise in the call (at most one does), outcomes what save_cache can run into
OnCloudPrinterUpdateOf(fails, outcomes) ==
    /\ cloud_loop_runs(phase)
    /\ cloud_call.stage = "pending"
    /\ LET msg_type == cloud_call.msg_type
           action == cloud_call.action
           endpoint == cloud_call.endpoint
       IN  \E fail \in {NoFail} \cup fails,
              now \in (IF job_wanted(msg_type, endpoint)
                       THEN Times ELSE {CHOOSE t \in Times : TRUE}) :
            \E r \in {update_from_cloud(printer_keys, printers_by_key,
                                         printer_objects_by_key, cache,
                                         msg_type, action, endpoint, now, fail)} :
            \E ret \in {IF local_connected(phase)
                         THEN deliver(retained, r.pubs) ELSE retained},
               outcome \in (IF r.save THEN outcomes ELSE {"none"}) :
                /\ printers_by_key' = r.registry
                /\ retained' = ret
                /\ cache' = r.cache
                /\ cache_file' = IF r.save
                                 THEN save_cache(cache_file, r.cache, outcome)
                                 ELSE cache_file
                /\ cloud_call' = [cloud_call EXCEPT !.stage = "done",
                                                    !.pubs = r.pubs,
                                                    !.saved = r.save,
                                                    !.outcome = outcome,
                                                    !.recomputed = r.recomputed,
                                                    !.now = now]
                /\ phase' = after_save(phase, outcome)
    /\ UNCHANGED <<mirror_call, ace_seen, allow_prefix, printer_keys, printer_objects_by_key,
                   mqtt_client, local_call, notifications, auth, retry_vars>>

\* one turn of the loop at the head of update_from_cloud: the registry status
\* of the next device is set from its device object.  The loop runs in the
\* thread of the cloud client and holds no lock: the threads of the local
\* client and of the timers can run between two turns
RefreshOneStatus ==
    /\ cloud_loop_runs(phase)
    /\ cloud_call.stage = "pending"
    /\ cloud_call.refreshed < Len(printer_keys)
    /\ LET k == printer_keys[cloud_call.refreshed + 1]
       IN  printers_by_key' =
              [printers_by_key EXCEPT
                  ![k].status = printer_objects_by_key[k].current_status]
    /\ cloud_call' = [cloud_call EXCEPT !.refreshed = @ + 1]
    /\ UNCHANGED <<mirror_call, ace_seen, phase, allow_prefix, printer_keys,
                   printer_objects_by_key, mqtt_client, local_call, retained,
                   cache, cache_file, notifications, auth, retry_vars>>

\* the callback returns to the loop of the cloud library
CloudCallbackReturns ==
    /\ cloud_loop_runs(phase)
    /\ cloud_call.stage = "done"
    /\ cloud_call' = Idle
    /\ UNCHANGED <<mirror_call, ace_seen, phase, allow_prefix, registry_vars, mqtt_client, local_call,
                   retained, cache, cache_file, notifications, auth, retry_vars>>

\* self.local_client is set: from _ensure_local_client on, the shutdown does
\* not clear it
local_client_set(ph) == ph \in {"local_up", "running", "stopping", "stopped"}

\* the raw messages of the cloud bus the library hands to the mirror callback
MirroredTopics == {"anycubic/anycubicCloud/v1/printer/public/20021/k1/print/report",
                   "anycubic/anycubicCloud/v1/server/printer/20021/k1/response"}
MirroredPayloads == {"{\"type\":\"print\",\"action\":\"start\"}", "not json"}

\* a plausible slip: the mirror publish is retained like the sensor publishes
mirror_raw_to_local_retained(topic, payload, client, raises) ==
    IF ~client THEN [pubs |-> <<>>, errors |-> 0]
    ELSE LET local_topic == local_prefix \o "/cloud/" \o topic
         IN  [pubs |-> <<Pub(local_topic, payload, TRUE,
                             IF raises THEN local_topic ELSE NoFail)>>,
              errors |-> IF raises THEN 1 ELSE 0]

\* _mirror_raw_to_local: one publish, its exception is logged
mirror_raw_to_local(topic, payload, client, raises) ==
    IF ~client THEN [pubs |-> <<>>, errors |-> 0]
    ELSE LET local_topic == local_prefix \o "/cloud/" \o topic
         IN  [pubs |-> <<Pub(local_topic, payload, FALSE,
                             IF raises THEN local_topic ELSE NoFail)>>,
              errors |-> IF raises THEN 1 ELSE 0]

\* the cloud library calls _mqtt_callback_mirror_raw_message for a message it
\* received
MirrorRawToLocal ==
    /\ cloud_loop_runs(phase)
    /\ mqtt_client
    /\ cloud_call.stage = "idle"
    /\ \E topic \in MirroredTopics, payload \in MirroredPayloads, raises \in BOOLEAN :
        \E r \in {mirror_raw_to_local(topic, payload, local_client_set(phase), raises)} :
            /\ mirror_call' = [topic |-> topic, payload |-> payload,
                               pubs |-> r.pubs, errors |-> r.errors]
            /\ retained' = IF local_connected(phase)
                           THEN deliver(retained, r.pubs) ELSE retained
    /\ UNCHANGED <<ace_seen, phase, allow_prefix, registry_vars, mqtt_client,
                   local_call, cache, cache_file, cloud_call, notifications,
                   auth, retry_vars>>

\* the delays of the two retries, in seconds
RetryDelays == <<8, 25>>

\* the most calls of _on_mqtt_subscribed taken in one run
MaxSubscribed == 2

\* the timers not yet run, as a count per (device, delay)
pending(tm, k, d) == IF <<k, d>> \in DOMAIN tm THEN tm[<<k, d>>] ELSE 0

\* _schedule_ace_getinfo_retry: one daemon threading.Timer per device of
\* printer_objects_by_key, started at once
schedule_ace_getinfo_retry(tm, objs, delay_seconds) ==
    [p \in DOMAIN tm \cup {<<k, delay_seconds>> : k \in DOMAIN objs} |->
        pending(tm, p[1], p[2])
            + (IF p[2] = delay_seconds /\ p[1] \in DOMAIN objs THEN 1 ELSE 0)]

\* _on_mqtt_subscribed: one schedule per delay
on_mqtt_subscribed(tm, objs) ==
    schedule_ace_getinfo_retry(
        schedule_ace_getinfo_retry(tm, objs, RetryDelays[1]), objs, RetryDelays[2])

\* the cloud library has connected and subscribed and calls
\* _mqtt_callback_subscribed, once per connection it makes
MqttSubscribed ==
    /\ cloud_loop_runs(phase)
    /\ mqtt_client
    /\ ~signalled
    /\ subscribed < MaxSubscribed
    /\ signalled' = TRUE
    /\ subscribed' = subscribed + 1
    /\ timers' = on_mqtt_subscribed(timers, printer_objects_by_key)
    /\ UNCHANGED <<mirror_call, ace_seen, phase, allow_prefix, registry_vars, mqtt_client, local_call,
                   ha_vars, auth, probes>>

\* the timer threads are daemon threads: they run until the process ends
timers_run(ph) == ph \in {"running", "stopping", "stopped"}

\* _runner_for: the delay of one timer is over; the getInfo request is sent,
\* or the send raises and is logged
TimerFires ==
    /\ timers_run(phase)
    /\ \E p \in DOMAIN timers, sent \in BOOLEAN :
        /\ timers[p] > 0
        /\ timers' = [timers EXCEPT ![p] = @ - 1]
        /\ probes' = IF ~sent THEN probes
                     ELSE [k \in DOMAIN probes \cup {p[1]} |->
                             (IF k \in DOMAIN probes THEN probes[k] ELSE 0)
                                 + (IF k = p[1] THEN 1 ELSE 0)]
    /\ UNCHANGED <<mirror_call, ace_seen, phase, allow_prefix, registry_vars, mqtt_client, local_call,
                   ha_vars, auth, signalled, subscribed>>

\* SIGTERM or SIGINT: _signal_handler sets the stop event, the wait loop of
\* run() ends
StopSignal ==
    /\ phase = "running"
    /\ phase' = "stopping"
    /\ UNCHANGED <<mirror_call, ace_seen, allow_prefix, registry_vars, mqtt_client, local_call, ha_vars,
                   auth, retry_vars>>

\* a plausible slip: the shutdown joins the thread of the cloud client, which
\* blocks in connect_mqtt for as long as the process lives
shutdown_runs_after_cloud_thread(ph) == ph = "stopping" /\ ~cloud_loop_runs(ph)

\* the shutdown sequence runs as soon as the wait loop has seen the stop
\* event: it waits for no daemon thread (loop_stop joins the local loop only)
shutdown_runs(ph) == ph = "stopping"

\* the shutdown of run(): loop_stop and disconnect of the local client, the
\* HTTP session is closed; run() returns
Shutdown ==
    /\ shutdown_runs(phase)
    /\ phase' = "stopped"
    /\ UNCHANGED <<mirror_call, ace_seen, allow_prefix, registry_vars, mqtt_client, local_call, ha_vars,
                   auth, retry_vars>>

\* the phases in which run() has ended
Ended == {"failed", "crashed", "stopped"}

\* between two runs the cache file loses its read permission
CacheFileUnreadable ==
    /\ phase \in Ended
    /\ cache_file.kind # "missing"
    /\ cache_file' = [kind |-> "unreadable", doc |-> <<>>]
    /\ UNCHANGED <<mirror_call, ace_seen, phase, allow_prefix, registry_vars, mqtt_client, local_call,
                   retained, cache, cloud_call, notifications, auth, retry_vars>>

\* the process is started again: a new ProxyService, the options, the cache
\* file and the retained messages of the broker are those the last run left
Restart ==
    /\ phase \in Ended
    /\ phase' = "created"
    /\ printer_keys' = <<>>
    /\ printers_by_key' = <<>>
    /\ printer_objects_by_key' = <<>>
    /\ mqtt_client' = FALSE
    /\ local_call' = [topic |-> "", raw |-> NoRaw, connected |-> FALSE]
                         @@ Outcome("none", <<>>, 0, 0)
    /\ cache' = <<>>
    /\ cloud_call' = Idle
    /\ auth' = "none"
    /\ signalled' = FALSE
    /\ subscribed' = 0
    /\ timers' = <<>>
    /\ probes' = <<>>
    /\ mirror_call' = NoMirror
    /\ ace_seen' = <<>>
    /\ UNCHANGED <<allow_prefix, retained, cache_file, notifications>>

OnLocalMessage == OnLocalMessageOf(LocalTopics, RawPayloads)

\* the bridge alone: the local loop and the state of the cloud client
NextBridge ==
    \/ AuthFail
    \/ Bootstrap
    \/ EnsureLocalClient
    \/ StartPublisher
    \/ CloudConnect
    \/ CloudDisconnect
    \/ OnLocalMessage

SpecBridge == Init /\ [][NextBridge]_vars

\* the dispatcher: every notification; a status publish can raise, every save
\* succeeds
CloudMessage == CloudMessageOf(AllTags)
OnCloudPrinterUpdate == OnCloudPrinterUpdateOf(StatusTopics, {"ok"})

NextDispatch ==
    \/ AuthFail
    \/ Bootstrap
    \/ EnsureLocalClient
    \/ StartPublisher
    \/ CloudConnect
    \/ CloudMessage
    \/ OnCloudPrinterUpdate
    \/ CloudCallbackReturns

SpecDispatch == InitDefault /\ [][NextDispatch]_vars

\* the accessory cycle and the cache: complete and partial frames, a publish
\* that raises, a save that fails or is cut short
CloudFrame == CloudMessageOf(FrameTags)
AccessoryCycle == OnCloudPrinterUpdateOf(AceTopics, SaveOutcomes)

NextCache ==
    \/ AuthFail
    \/ Bootstrap
    \/ EnsureLocalClient
    \/ StartPublisher
    \/ CloudConnect
    \/ CloudFrame
    \/ AccessoryCycle
    \/ CloudCallbackReturns

SpecCache == InitDefault /\ [][NextCache]_vars

\* runs that end and are started again: complete accessory frames, the save
\* can fail or be cut short
FullFrame == CloudMessageOf({<<"multiColorBox", "getInfo", PyNone>>})
AccessoryCycleAndSave == OnCloudPrinterUpdateOf({}, SaveOutcomes)

NextRestart ==
    \/ AuthFail
    \/ Bootstrap
    \/ EnsureLocalClient
    \/ StartPublisher
    \/ CloudConnect
    \/ FullFrame
    \/ AccessoryCycleAndSave
    \/ CloudCallbackReturns
    \/ StopSignal
    \/ Shutdown
    \/ CacheFileUnreadable
    \/ Restart

SpecRestart == InitDefault /\ [][NextRestart]_vars

\* the retry scheduler: connections of the cloud client, their "subscribed"
\* calls, the timers, the stop signal and the shutdown
NextRetry ==
    \/ AuthFail
    \/ Bootstrap
    \/ EnsureLocalClient
    \/ StartPublisher
    \/ CloudConnect
    \/ CloudDisconnect
    \/ MqttSubscribed
    \/ TimerFires
    \/ StopSignal
    \/ Shutdown

SpecRetry == InitDefault /\ [][NextRetry]_vars

\* one run up to the end of its shutdown: a structured publish for the first
\* device on the local bus, complete accessory frames from the cloud, every
\* save succeeds
StructuredPublish ==
    OnLocalMessageOf({PublishTopic(CloudKeys[1], "print")}, {Text("hello")})
AccessoryCycleSaved == OnCloudPrinterUpdateOf({}, {"ok"})

NextShutdown ==
    \/ AuthFail
    \/ Bootstrap
    \/ EnsureLocalClient
    \/ StartPublisher
    \/ CloudConnect
    \/ MqttSubscribed
    \/ StructuredPublish
    \/ FullFrame
    \/ AccessoryCycleSaved
    \/ CloudCallbackReturns
    \/ StopSignal
    \/ Shutdown

SpecShutdown == InitDefault /\ [][NextShutdown]_vars

\* runs that end in a shutdown and are started again: complete accessory
\* frames and print reports, every save succeeds
FrameOrReport == CloudMessageOf({<<"multiColorBox", "getInfo", PyNone>>,
                                 <<"print", PyNone, "report">>})
CycleSaved == OnCloudPrinterUpdateOf({}, {"ok"})

NextResume ==
    \/ AuthFail
    \/ Bootstrap
    \/ EnsureLocalClient
    \/ StartPublisher
    \/ CloudConnect
    \/ FrameOrReport
    \/ CycleSaved
    \/ CloudCallbackReturns
    \/ StopSignal
    \/ Shutdown
    \/ Restart

SpecResume == InitDefault /\ [][NextResume]_vars

\* the local publishes of one run: the startup publishes, the cycles of
\* complete frames and print reports, the mirror of raw cloud messages
NextMirror ==
    \/ AuthFail
    \/ Bootstrap
    \/ EnsureLocalClient
    \/ StartPublisher
    \/ CloudConnect
    \/ FrameOrReport
    \/ CycleSaved
    \/ CloudCallbackReturns
    \/ MirrorRawToLocal

SpecMirror == InitDefault /\ [][NextMirror]_vars

\* the threads side by side: the handler of the cloud thread taken turn by
\* turn through its status refresh, the handler of the local thread
NextThreads ==
    \/ AuthFail
    \/ Bootstrap
    \/ EnsureLocalClient
    \/ StartPublisher
    \/ CloudConnect
    \/ FrameOrReport
    \/ RefreshOneStatus
    \/ CycleSaved
    \/ CloudCallbackReturns
    \/ StructuredPublish

SpecThreads == InitDefault /\ [][NextThreads]_vars

\* local messages of every fate next to the cloud handler taken turn by turn:
\* structured publishes for a registered and for an unregistered device, raw
\* envelopes; text, an envelope, bytes that do not decode
LocalTraffic ==
    OnLocalMessageOf({PublishTopic("k1", "print"), PublishTopic("k2", "print"),
                      local_prefix \o "/to_cloud/raw"},
                     {Text("hello"),
                      Doc("{\"topic\":\"anycubic/anycubicCloud/v1/printer/public/20021/k1/print\",\"payload\":{\"a\":1}}",
                          Envelope(DefaultAllowPrefix \o "20021/k1/print",
                                   JObj(<<Member("a", JNum(1))>>))),
                      Undecodable})

NextLocalFrame ==
    \/ AuthFail
    \/ Bootstrap
    \/ EnsureLocalClient
    \/ StartPublisher
    \/ CloudConnect
    \/ FullFrame
    \/ RefreshOneStatus
    \/ CycleSaved
    \/ CloudCallbackReturns
    \/ LocalTraffic

SpecLocalFrame == InitDefault /\ [][NextLocalFrame]_vars

\* one run with what can be going on when the stop signal comes: the local
\* loop handles a structured publish, the cloud loop connects, confirms
\* subscriptions or is inside the handler of a notification (between two
\* status refreshes), retry timers are pending or fire
NextStop ==
    \/ AuthFail
    \/ Bootstrap
    \/ EnsureLocalClient
    \/ StartPublisher
    \/ CloudConnect
    \/ MqttSubscribed
    \/ TimerFires
    \/ StructuredPublish
    \/ FullFrame
    \/ RefreshOneStatus
    \/ StopSignal
    \/ Shutdown

\* the main thread is scheduled: its wait loop polls the stop event once a
\* second and the calls of the shutdown sequence return.  Nothing is assumed
\* of the other threads
SpecStop == InitDefault /\ [][NextStop]_vars /\ WF_vars(Shutdown)

Next ==
    NextBridge \/ NextDispatch \/ NextCache \/ NextRestart \/ NextRetry
        \/ NextShutdown \/ NextResume \/ NextMirror \/ NextThreads
        \/ NextLocalFrame \/ NextStop

Spec == Init /\ [][Next]_vars

-----------------------------------------------------------------------------
(* The local topic shapes as the interface names them *)

RawTopic == local_prefix \o "/to_cloud/raw"
StructuredRoot == local_prefix \o "/to_cloud/publish/"

\* {localPrefix}/to_cloud/publish/{deviceKey}/{endpoint...}
IsStructured(topic) == startswith(topic, StructuredRoot)
PathAfterPublish(topic) == split(SubSeq(topic, Len(StructuredRoot) + 1, Len(topic)))
DeviceKeyOf(topic) == PathAfterPublish(topic)[1]
EndpointOf(topic) == join(Tail(PathAfterPublish(topic)))

\* the last local message was a raw passthrough carrying a JSON object with a
\* string topic
RawEnvelopeCall ==
    /\ local_call.topic = RawTopic
    /\ local_call.raw.ok
    /\ local_call.raw.val.t = "obj"
    /\ dict_get(local_call.raw.val, "topic").t = "str"

EnvelopeTopic == dict_get(local_call.raw.val, "topic").s

\* the last local message was a structured publish for a registered device
StructuredCallKnown ==
    /\ local_call.branch # "none"
    /\ IsStructured(local_call.topic)
    /\ DeviceKeyOf(local_call.topic) \in DOMAIN printers_by_key

StructuredCallUnknown ==
    /\ local_call.branch # "none"
    /\ IsStructured(local_call.topic)
    /\ DeviceKeyOf(local_call.topic) \notin DOMAIN printers_by_key

-----------------------------------------------------------------------------
\* C1: whatever local messages were handled, every message a handler call
\* published on the cloud channel has a topic that starts with the configured
\* allow-list prefix (an exact string prefix).  local_call holds the publishes
\* of the latest call, so the invariant covers every call of every run.
C1_ForwardedWithinAllowList ==
    \A i \in 1..Len(local_call.forwarded) :
        /\ Len(allow_prefix) <= Len(local_call.forwarded[i].topic)
        /\ SubSeq(local_call.forwarded[i].topic, 1, Len(allow_prefix)) = allow_prefix

C1_Witness ==
    /\ allow_prefix = "a/b/"
    /\ local_call.branch = "raw"
    /\ Len(local_call.forwarded) = 1

\* C2 (as claimed): a structured publish for a registered device, handled as
\* such while the cloud client is connected, is forwarded on
\* {allow_prefix}{machineType}/{key}/{endpoint}.
C2_TopicBuiltFromAllowPrefix ==
    (StructuredCallKnown /\ local_call.branch = "publish" /\ local_call.connected) =>
        LET info == printers_by_key[DeviceKeyOf(local_call.topic)]
        IN  /\ Len(local_call.forwarded) = 1
            /\ local_call.forwarded[1].topic =
                  allow_prefix \o info.machine_type \o "/" \o info.key \o "/"
                      \o EndpointOf(local_call.topic)

\* C3: a raw passthrough envelope whose topic starts with the allow-list prefix
\* and that arrives while the cloud client is connected is forwarded exactly
\* once, on the envelope's topic; one whose topic does not start with the
\* prefix is dropped with exactly one warning.
C3_RawForwardOrDrop ==
    RawEnvelopeCall =>
        /\ (startswith(EnvelopeTopic, allow_prefix) /\ local_call.connected) =>
              /\ Len(local_call.forwarded) = 1
              /\ local_call.forwarded[1].topic = EnvelopeTopic
              /\ local_call.warnings = 0
        /\ ~startswith(EnvelopeTopic, allow_prefix) =>
              /\ local_call.forwarded = <<>>
              /\ local_call.warnings = 1

C3_Witness ==
    /\ RawEnvelopeCall
    /\ startswith(EnvelopeTopic, allow_prefix)
    /\ local_call.connected
    /\ Len(local_call.forwarded) = 1

\* C4 (as claimed): a structured publish addressed to a device key that is not
\* in the registry publishes nothing on the cloud channel and logs exactly one
\* error.
C4_UnknownKeyNeverForwarded ==
    StructuredCallUnknown =>
        /\ local_call.forwarded = <<>>
        /\ local_call.errors = 1

\* C5 (as claimed): every message on a structured-publish topic is handled as
\* a structured publish: whatever it forwards goes to the topic built from the
\* device key right after `publish` and the whole remaining path as endpoint.
C5_StructuredShapeIsStructured ==
    StructuredCallKnown =>
        /\ local_call.branch = "publish"
        /\ \A i \in 1..Len(local_call.forwarded) :
              local_call.forwarded[i].topic =
                  LET info == printers_by_key[DeviceKeyOf(local_call.topic)]
                  IN  PublishTopicPrefix \o info.machine_type \o "/" \o info.key
                          \o "/" \o EndpointOf(local_call.topic)

-----------------------------------------------------------------------------
(* The local topics of the sensors as the interface names them *)

AllSlots == Range(Slots(printer_keys))

AceStateTopics == {ha_ace_state_topic(s[1], s[2]) : s \in AllSlots}
AceAttrsTopics == {ha_ace_attrs_topic(s[1], s[2]) : s \in AllSlots}

JobTopics ==
    {ha_job_state_topic(k, JobIds[i]) : k \in Range(printer_keys), i \in 1..Len(JobIds)}

\* the topics a handler call published on (or tried to)
PubTopics(pubs) == {pubs[i].topic : i \in 1..Len(pubs)}

\* the retained payload of topic t, if there is one
RetainedAt(ret, t) == IF t \in DOMAIN ret THEN <<ret[t]>> ELSE <<>>

\* the notification in hand is a partial accessory frame
PartialFrame ==
    cloud_call.msg_type = "multiColorBox" /\ cloud_call.action # "getInfo"

\* the cache entry of slot s in the snapshot c, if there is one
EntryAt(c, s) ==
    IF s[1] \in DOMAIN c /\ box_key(s[2]) \in DOMAIN c[s[1]].ace
    THEN <<c[s[1]].ace[box_key(s[2])]>> ELSE <<>>

\* C6: handling a notification with messageType "multiColorBox" and an action
\* other than "getInfo" publishes on no accessory state or attrs topic, leaves
\* the in-memory cache and the cache file as they were, and so leaves the
\* retained accessory state and attrs of every slot unchanged.
C6_PartialFrameSuppressed ==
    [][(cloud_call.stage = "pending" /\ PartialFrame /\ cloud_call'.stage = "done") =>
          /\ PubTopics(cloud_call'.pubs) \cap (AceStateTopics \cup AceAttrsTopics) = {}
          /\ cache' = cache
          /\ ~cloud_call'.saved
          /\ cache_file' = cache_file
          /\ \A t \in AceStateTopics \cup AceAttrsTopics :
                RetainedAt(retained', t) = RetainedAt(retained, t)]_vars

\* a partial frame has been handled after an earlier accessory cycle, and the
\* slot data it carried differs from what that cycle published
C6_Witness ==
    /\ cloud_call.stage = "done"
    /\ PartialFrame
    /\ \E s \in AllSlots :
          /\ EntryAt(cache, s) # <<>>
          /\ EntryAt(cache, s) # <<ace_entry(printer_objects_by_key, s[1], s[2])>>
          /\ ha_ace_state_topic(s[1], s[2]) \in DOMAIN retained

\* C7: handling a notification publishes the job sensors of every device when
\* messageType is "print" and the endpoint is absent or "report", and publishes
\* on no job topic for any other messageType and endpoint.
C7_JobSensorsIffPrintReport ==
    cloud_call.stage = "done" =>
        IF cloud_call.msg_type = "print" /\ cloud_call.endpoint \in {PyNone, "report"}
        THEN JobTopics \subseteq PubTopics(cloud_call.pubs)
        ELSE JobTopics \cap PubTopics(cloud_call.pubs) = {}

C7_Witness ==
    /\ cloud_call.stage = "done"
    /\ cloud_call.msg_type = "print"
    /\ cloud_call.endpoint = "report"
    /\ Len(printer_keys) = 2
    /\ JobTopics \subseteq PubTopics(cloud_call.pubs)

\* C8: handling any notification first refreshes the registry status of every
\* device from its cloud object, then publishes the status topic of every
\* device, then the online topic of every device, and only then any job or
\* accessory topic.
C8_StatusAndOnlineFirst ==
    cloud_call.stage = "done" =>
        LET n == Len(printer_keys)
            pubs == cloud_call.pubs
        IN  /\ Len(pubs) >= 2 * n
            /\ \A i \in 1..n :
                  LET k == printer_keys[i]
                      pobj == printer_objects_by_key[k]
                  IN  /\ printers_by_key[k].status = pobj.current_status
                      /\ pubs[i].topic = ha_sensor_state_topic(k)
                      /\ pubs[i].payload = pobj.current_status
                      /\ pubs[n + i].topic = ha_online_state_topic(k)
                      /\ pubs[n + i].payload =
                            (IF pobj.printer_online THEN "online" ELSE "offline")
            /\ \A j \in (2 * n + 1)..Len(pubs) :
                  pubs[j].topic \in JobTopics \cup AceStateTopics \cup AceAttrsTopics

\* a notification about one of two devices changed its status, and job and
\* accessory publishes followed the status and online publishes of both
C8_Witness ==
    /\ cloud_call.stage = "done"
    /\ Len(printer_keys) = 2
    /\ Len(cloud_call.pubs) > 4
    /\ \E k \in DOMAIN printer_objects_by_key :
          printer_objects_by_key[k].current_status = "busy"
    /\ \E k \in DOMAIN printer_objects_by_key :
          printer_objects_by_key[k].current_status = "free"

\* C9 (as claimed): the cache file is written only when the entry of every
\* slot of every device has been stored in the cycle that precedes the write,
\* so a written snapshot holds the entry of the current cycle for every slot.
C9_SaveOnlyAfterFullRecompute ==
    (cloud_call.stage = "done" /\ cloud_call.saved) =>
        /\ cloud_call.recomputed = AllSlots
        /\ cloud_call.outcome = "ok" =>
              \A s \in AllSlots :
                  EntryAt(cache_file.doc, s) =
                      <<ace_entry(printer_objects_by_key, s[1], s[2])>>

\* a written snapshot that holds one slot's entry from an earlier cycle next to
\* another slot's entry from the current one
C9_MixedSnapshot ==
    /\ cloud_call.stage = "done"
    /\ cloud_call.saved
    /\ cloud_call.outcome = "ok"
    /\ \E s \in AllSlots \ cloud_call.recomputed :
          /\ EntryAt(cache_file.doc, s) # <<>>
          /\ EntryAt(cache_file.doc, s) # <<ace_entry(printer_objects_by_key, s[1], s[2])>>
    /\ cloud_call.recomputed # {}

\* C10 (as claimed): after a crash during a save the file holds a complete
\* snapshot (the previous one, or none yet, or the new one), never an empty or
\* a truncated document.
C10_SaveIsAtomic ==
    phase = "crashed" => cache_file.kind \notin {"empty", "truncated"}

\* a crash right after the file was opened for writing
C10_CrashLeavesEmptyFile ==
    /\ phase = "crashed"
    /\ cloud_call.outcome = "crash_after_open"
    /\ cache # <<>>
    /\ cache_file.kind = "empty"

-----------------------------------------------------------------------------
(* Restart: the cache file is loaded and replayed *)

\* run() builds its publisher, loads the cache and makes the initial publishes
StartStep == phase = "local_up" /\ phase' # phase

\* the payloads the replay of the entry e of slot s puts on its two topics are
\* those of e
ReplaysEntry(ret, s, e) ==
    /\ RetainedAt(ret, ha_ace_state_topic(s[1], s[2])) = <<e.state>>
    /\ RetainedAt(ret, ha_ace_attrs_topic(s[1], s[2])) = <<json_dumps(e.attrs)>>

\* C11 (as claimed): when a run starts with a cache file an earlier run
\* committed, its first accessory state and attrs publishes for every slot of
\* the file are the committed values, they are also what the broker retained
\* last on those topics before the restart, and they are made before any cloud
\* notification of the new run is taken.
C11_ReplayEqualsLastCommittedAndPublished ==
    [][(StartStep /\ cache_file.kind = "doc") =>
        /\ phase' = "running"
        /\ ~mqtt_client' /\ cloud_call' = Idle /\ notifications' = notifications
        /\ \A s \in AllSlots :
              \A e \in Range(EntryAt(cache_file.doc, s)) :
                  /\ ReplaysEntry(retained', s, e)
                  /\ ReplaysEntry(retained, s, e)]_vars

\* a run that replayed a committed entry of a slot without telemetry: "{}" on an
\* attrs topic on which the earlier run had published nothing
C11_ReplayOfSlotWithoutTelemetry ==
    /\ phase = "running"
    /\ cloud_call = Idle /\ ~mqtt_client
    /\ cache_file.kind = "doc"
    /\ \E s \in AllSlots :
          /\ EntryAt(cache, s) = <<[state |-> "inactive", attrs |-> JObj(<<>>)]>>
          /\ EntryAt(cache_file.doc, s) = EntryAt(cache, s)
          /\ RetainedAt(retained, ha_ace_attrs_topic(s[1], s[2])) = <<"{}">>

\* C12: load_cache never ends the run: a missing, unreadable, empty or
\* truncated file gives the empty mapping, a readable one the mapping it
\* holds; run() goes on to "running" and the replay publishes from that
\* mapping.
C12_LoadNeverFails ==
    [][StartStep =>
        /\ phase' = "running"
        /\ cache' = (IF cache_file.kind = "doc" THEN cache_file.doc ELSE <<>>)
        /\ \A s \in AllSlots :
              \A e \in Range(EntryAt(cache', s)) : ReplaysEntry(retained', s, e)
        /\ cache_file.kind # "doc" =>
              \A t \in AceStateTopics \cup AceAttrsTopics :
                  RetainedAt(retained', t) = RetainedAt(retained, t)]_vars

\* a run that came up on a file it could not read or parse
C12_Witness ==
    /\ phase = "running"
    /\ cache_file.kind \in {"unreadable", "empty", "truncated"}
    /\ cache = <<>>
    /\ cloud_call = Idle /\ ~mqtt_client
    /\ retained # <<>>

-----------------------------------------------------------------------------
(* Unknown values *)

\* the topics on which the call in hand made a publish that did not raise
PublishedOk(pubs) == {pubs[i].topic : i \in {j \in 1..Len(pubs) : pubs[j].ok}}

\* C20 (as claimed): a call that republishes a sensor group publishes on every
\* topic of the group, an empty payload where the value is unknown: the job
\* topics of every device on a print report, the state and the attrs topic of
\* every slot in an accessory cycle, telemetry or not.
C20_UnknownValuesPublishedEmpty ==
    cloud_call.stage = "done" =>
        /\ job_wanted(cloud_call.msg_type, cloud_call.endpoint) =>
              JobTopics \subseteq PubTopics(cloud_call.pubs)
        /\ ace_wanted(cloud_call.msg_type, cloud_call.action) =>
              AceStateTopics \cup AceAttrsTopics \subseteq PubTopics(cloud_call.pubs)

\* an accessory cycle for a slot that has no telemetry any more left the attrs
\* of an earlier frame retained on its attrs topic
C20_StaleAttrsRetained ==
    /\ cloud_call.stage = "done"
    /\ ace_wanted(cloud_call.msg_type, cloud_call.action)
    /\ \E s \in AllSlots :
          /\ collect_ace_attrs(printer_objects_by_key, s[1], s[2]) = JNull
          /\ ha_ace_state_topic(s[1], s[2]) \in PublishedOk(cloud_call.pubs)
          /\ ha_ace_attrs_topic(s[1], s[2]) \notin PubTopics(cloud_call.pubs)
          /\ RetainedAt(retained, ha_ace_attrs_topic(s[1], s[2])) # <<>>

-----------------------------------------------------------------------------
(* The retry scheduler *)

\* the retry requests sent for device k in this run
sent_to(pr, k) == IF k \in DOMAIN pr THEN pr[k] ELSE 0

\* the timers of device k not yet run
pending_for(tm, k) == pending(tm, k, RetryDelays[1]) + pending(tm, k, RetryDelays[2])

\* a call of _on_mqtt_subscribed starts one timer per device and delay
TwoTimersPerSignal ==
    subscribed' # subscribed =>
        \A k \in DOMAIN printer_objects_by_key : \A i \in 1..Len(RetryDelays) :
            pending(timers', k, RetryDelays[i]) = pending(timers, k, RetryDelays[i]) + 1

\* a timer runs once: a request sent uses up one timer of its device, a timer
\* whose send failed is gone as well
TimersAreOneShot ==
    \A k \in DOMAIN printer_objects_by_key :
        /\ sent_to(probes', k) <= sent_to(probes, k) + 1
        /\ sent_to(probes', k) > sent_to(probes, k) =>
              pending_for(timers', k) = pending_for(timers, k) - 1
        /\ subscribed' = subscribed => pending_for(timers', k) <= pending_for(timers, k)

\* C13 (as claimed): a "subscribed" signal schedules exactly two one-shot
\* retries per device (8 s and 25 s), each runs at most once, a failed send is
\* not repeated, and in a whole run no device is sent more than two retry
\* requests.
C13_AtMostTwoProbesPerDevice ==
    [][/\ TwoTimersPerSignal
       /\ TimersAreOneShot
       /\ \A k \in DOMAIN printer_objects_by_key : sent_to(probes', k) <= 2]_vars

\* the cloud client connected twice in a run and a device was sent a third
\* retry request
C13_ThirdProbe ==
    /\ subscribed = 2
    /\ \E k \in DOMAIN printer_objects_by_key : sent_to(probes, k) = 3

\* C14 (as claimed): the retries can be cancelled: once the stop signal has
\* been taken no retry request is sent any more, so a run stopped before the
\* first delay is over sends none.
C14_NoProbeAfterShutdownStarted ==
    [][(phase \in {"stopping", "stopped"}) => (probes' = probes)]_vars

\* a run stopped before any retry was sent, its shutdown over, with a timer
\* still to run
C14_TimerOutlivesShutdown ==
    /\ phase = "stopped"
    /\ probes = <<>>
    /\ \E k \in DOMAIN printer_objects_by_key : pending_for(timers, k) > 0

-----------------------------------------------------------------------------
(* Shutdown *)

\* C15 (as claimed): the shutdown that follows a stop signal leaves the local
\* loop stopped, the cloud client disconnected and no retry timer to run; from
\* then on no local message is handled and no cloud notification is taken or
\* dispatched.
C15_ShutdownStopsBothLoops ==
    [][/\ phase' = "stopped" =>
            /\ ~local_loop_runs(phase')
            /\ ~mqtt_client'
            /\ \A k \in DOMAIN printer_objects_by_key : pending_for(timers', k) = 0
       /\ phase = "stopped" =>
            /\ local_call' = local_call
            /\ cloud_call' = cloud_call
            /\ notifications' = notifications]_vars

\* a cloud notification dispatched to update_from_cloud after the shutdown
C15_DispatchAfterShutdown ==
    /\ phase = "stopped"
    /\ mqtt_client
    /\ cloud_call.stage = "done"
    /\ cloud_call.saved
    /\ cloud_call.pubs # <<>>
    /\ \E i \in 1..Len(cloud_call.pubs) :
          RetainedAt(retained, cloud_call.pubs[i].topic) # <<cloud_call.pubs[i].payload>>

-----------------------------------------------------------------------------
(* Startup order *)

\* the bootstrap is over: the tokens were accepted, run() is past
\* _async_bootstrap, the two maps hold the same devices
BootstrapDone ==
    /\ auth = "ok"
    /\ phase \notin {"created", "failed"}
    /\ Len(printer_keys) > 0
    /\ DOMAIN printers_by_key = Range(printer_keys)
    /\ DOMAIN printer_objects_by_key = Range(printer_keys)

\* C16: a local message is handled, and a cloud notification is taken or
\* dispatched, only when the bootstrap is over and the registry holds every
\* device of the account; the set of devices does not change afterwards, so no
\* message meets a partly filled registry.
C16_BootstrapBeforeLoops ==
    [][/\ (local_call' # local_call \/ cloud_call' # cloud_call) =>
            /\ BootstrapDone
            /\ printer_keys' = printer_keys
            /\ DOMAIN printers_by_key' = DOMAIN printers_by_key
       /\ (local_call.branch # "none" \/ notifications > 0) =>
            /\ printer_keys' = printer_keys
            /\ DOMAIN printers_by_key' = DOMAIN printers_by_key]_vars

\* a run that has handled a local message and dispatched a cloud notification
C16_Witness ==
    /\ BootstrapDone
    /\ local_call.branch = "publish"
    /\ cloud_call.stage = "done"
    /\ Len(printer_keys) = 2

\* C17: when check_api_tokens rejects the tokens, run() ends with the error
\* before anything is started: the registry is empty, there is no cloud client,
\* no local message is handled, no notification dispatched, nothing published,
\* no timer started.
C17_AuthFailureStartsNothing ==
    auth = "rejected" =>
        /\ phase = "failed"
        /\ printer_keys = <<>>
        /\ ~mqtt_client
        /\ local_call.branch = "none"
        /\ cloud_call = Idle
        /\ notifications = 0
        /\ retained = <<>>
        /\ cache_file = NoFile
        /\ timers = <<>>

C17_Witness == auth = "rejected" /\ phase = "failed"

-----------------------------------------------------------------------------
(* Errors and the callbacks *)

\* C18 (as claimed): whatever a local message carries, _on_local_message
\* returns to the loop: the call ends by forwarding, by dropping with a log or
\* by ignoring the topic, never with an exception that leaves the callback.
C18_NoErrorEscapesTheCallback ==
    local_call.branch \in {"none", "raw", "publish", "ignored"}

\* an undecodable payload on the raw passthrough topic
C18_DecodeErrorEscapes ==
    /\ local_call.topic = RawTopic
    /\ local_call.raw = Undecodable
    /\ local_call.branch = "raised"

\* the last local message is one the bridge accepts: a raw envelope whose topic
\* is within the allow-list, or a structured publish for a registered device
\* whose cloud topic is
AcceptedPublish(path) ==
    /\ path[1] \in DOMAIN printers_by_key
    /\ startswith(full_topic(printers_by_key[path[1]], join(Tail(path))),
                  allow_prefix)

AcceptedCall ==
    \/ RawEnvelopeCall /\ startswith(EnvelopeTopic, allow_prefix)
    \/ /\ local_call.branch # "none"
       /\ local_call.raw.utf8
       /\ ~is_raw_topic(local_call.topic)
       /\ IsStructured(local_call.topic)
       /\ AcceptedPublish(PathAfterPublish(local_call.topic))

\* C19: a local message handled while there is no cloud client is not
\* forwarded; when it had passed the checks it is dropped with one error log.
\* Nothing keeps it: a later connect of the cloud client forwards nothing, and
\* a call forwards at most one message, and only one it accepted while
\* connected.
C19_DroppedWhileDisconnected ==
    [][/\ ~local_call'.connected =>
            /\ local_call'.forwarded = <<>>
            /\ (local_call'.errors = 1 /\ local_call'.warnings = 0) \/ ~AcceptedCall'
       /\ Len(local_call'.forwarded) <= 1
       /\ Len(local_call'.forwarded) = 1 => local_call'.connected
       /\ mqtt_client' # mqtt_client => local_call' = local_call]_vars

\* an accepted raw envelope dropped while there was no cloud client, and the
\* client connected afterwards
C19_Witness ==
    /\ RawEnvelopeCall
    /\ startswith(EnvelopeTopic, allow_prefix)
    /\ ~local_call.connected
    /\ local_call.forwarded = <<>>
    /\ local_call.errors = 1
    /\ mqtt_client

-----------------------------------------------------------------------------
\* the value the last handler call took as the payload to forward: the
\* "payload" member of a raw envelope, or the structured publish's body parsed
\* as JSON when it parses and as text when it does not
LocalPayload ==
    IF local_call.branch = "raw" THEN dict_get(local_call.raw.val, "payload")
    ELSE IF local_call.raw.ok THEN local_call.raw.val
    ELSE JStr(local_call.raw.text)

\* C24 (as claimed): on the raw and on the structured path, the payload
\* forwarded to the cloud is the JSON encoding of the local payload when that
\* is a JSON object or a JSON array, and its plain string form otherwise.
C24_StructuredValuesGoAsJson ==
    \A i \in 1..Len(local_call.forwarded) :
        local_call.forwarded[i].payload =
            IF LocalPayload.t \in {"obj", "arr"}
            THEN json_dumps(LocalPayload) ELSE py_str(LocalPayload)

\* a JSON array forwarded as the Python repr of the list, which is not its
\* JSON encoding
C24_ArrayForwardedAsRepr ==
    /\ Len(local_call.forwarded) = 1
    /\ LocalPayload.t = "arr"
    /\ local_call.forwarded[1].payload = py_repr(LocalPayload)
    /\ local_call.forwarded[1].payload # json_dumps(LocalPayload)

-----------------------------------------------------------------------------
\* the last local message came on the raw passthrough topic and its payload is
\* no envelope: not JSON, JSON that is no object, or an object without a topic
MalformedRaw ==
    /\ local_call.topic = RawTopic
    /\ local_call.branch # "none"
    /\ \/ ~local_call.raw.ok
       \/ local_call.raw.val.t # "obj"
       \/ dict_get(local_call.raw.val, "topic") = JNull

\* C26 (as claimed): a raw passthrough message whose payload is no envelope is
\* dropped with a log entry: the call forwards nothing, logs an error or a
\* warning, and leaves the registry and the cache as they were.
C26_MalformedRawDroppedWithLog ==
    [][(local_call' # local_call /\ MalformedRaw') =>
          /\ local_call'.forwarded = <<>>
          /\ local_call'.errors + local_call'.warnings >= 1
          /\ UNCHANGED <<registry_vars, cache, cache_file>>]_vars

\* a payload that is not UTF-8 on the raw topic: the decode raises before the
\* try, the handler logs nothing
C26_UndecodableRawNotLogged ==
    /\ local_call.topic = RawTopic
    /\ ~local_call.raw.utf8
    /\ local_call.branch = "raised"
    /\ local_call.errors = 0
    /\ local_call.warnings = 0

\* the same claim for the payloads that decode, which the handler does drop
\* with a log entry
C26_DecodableMalformedRawDropped ==
    (MalformedRaw /\ local_call.raw.utf8) =>
        /\ local_call.forwarded = <<>>
        /\ local_call.errors + local_call.warnings = 1

-----------------------------------------------------------------------------
(* The instant an ISO-8601 UTC timestamp names, in seconds since the epoch *)

Digit(c) == CHOOSE d \in 0..9 : ToString(d) = c

RECURSIVE NumberOf(_)
NumberOf(digits) ==
    IF Len(digits) = 0 THEN 0
    ELSE NumberOf(SubSeq(digits, 1, Len(digits) - 1)) * 10
            + Digit(SubSeq(digits, Len(digits), Len(digits)))

\* the day number (days since 1970-01-01) of a civil date
DaysFromCivil(year, month, day) ==
    LET y   == IF month <= 2 THEN year - 1 ELSE year
        era == y \div 400
        yoe == y - era * 400
        mp  == IF month > 2 THEN month - 3 ELSE month + 9
        doy == (153 * mp + 2) \div 5 + day - 1
        doe == yoe * 365 + yoe \div 4 - yoe \div 100 + doy
    IN  era * 146097 + doe - 719468

\* "YYYY-MM-DDTHH:MM:SSZ"
InstantOf(iso) ==
    DaysFromCivil(NumberOf(SubSeq(iso, 1, 4)), NumberOf(SubSeq(iso, 6, 7)),
                  NumberOf(SubSeq(iso, 9, 10))) * 86400
        + NumberOf(SubSeq(iso, 12, 13)) * 3600
        + NumberOf(SubSeq(iso, 15, 16)) * 60
        + NumberOf(SubSeq(iso, 18, 19))

IsIsoUtc(iso) ==
    /\ Len(iso) = 20
    /\ SubSeq(iso, 5, 5) = "-" /\ SubSeq(iso, 8, 8) = "-"
    /\ SubSeq(iso, 11, 11) = "T"
    /\ SubSeq(iso, 14, 14) = ":" /\ SubSeq(iso, 17, 17) = ":"
    /\ SubSeq(iso, 20, 20) = "Z"

\* the publish of the ETA sensor of device k in the call in hand, if any
EtaPubs(k) ==
    {i \in 1..Len(cloud_call.pubs) :
        cloud_call.pubs[i].topic = ha_job_state_topic(k, "eta")}

\* C23: every ETA a notification publishes names the instant
\* T + remainingMinutes * 60 s, T being the clock read in that call (with 42
\* minutes left at T it is T + 2520 s); it depends on nothing but T and the
\* remaining minutes, so two publishes at the same T agree and a later one at
\* T' gives T' + remainingMinutes * 60.  A device without remaining minutes
\* gets the empty payload.
C23_EtaIsPublishTimePlusRemaining ==
    cloud_call.stage = "done" =>
        \A k \in Range(printer_keys) : \A i \in EtaPubs(k) :
            LET rem == printer_objects_by_key[k].remaining_min
                payload == cloud_call.pubs[i].payload
            IN  IF rem.none THEN payload = ""
                ELSE /\ IsIsoUtc(payload)
                     /\ InstantOf(payload) = cloud_call.now + rem.n * 60

\* 42 minutes left at T = 1700000000: the ETA published is T + 2520 s
C23_Witness ==
    /\ cloud_call.stage = "done"
    /\ cloud_call.now = 1700000000
    /\ \E k \in Range(printer_keys) : \E i \in EtaPubs(k) :
        /\ printer_objects_by_key[k].remaining_min = SomeInt(42)
        /\ cloud_call.pubs[i].payload = "2023-11-14T22:55:20Z"
        /\ InstantOf(cloud_call.pubs[i].payload) = 1700002520

-----------------------------------------------------------------------------
\* the descriptors publish_ha_discovery would publish now
DescriptorsNow == publish_ha_discovery(printer_keys, printers_by_key)

\* C22: descriptor generation is idempotent.  From the publish at startup on,
\* whatever notifications have refreshed in the registry since, generating the
\* descriptors again gives the (topic, payload) pairs the broker already
\* retains: a second run of publish_ha_discovery leaves every retained
\* descriptor as the first run left it.
C22_DiscoveryIsIdempotent ==
    phase \in {"running", "stopping", "stopped"} =>
        \A again \in {DescriptorsNow} :
            /\ \A i \in 1..Len(again) :
                  /\ again[i].topic \in DOMAIN retained
                  /\ retained[again[i].topic] = again[i].payload
            /\ deliver(retained, again) = retained

\* two devices, descriptors retained, and a notification has refreshed the
\* registry since they were published
C22_Witness ==
    /\ phase = "running"
    /\ Len(printer_keys) = 2
    /\ \E k \in Range(printer_keys) : printers_by_key[k].status = "busy"
    /\ \E again \in {DescriptorsNow} :
          /\ Len(again) > 0
          /\ \A i \in 1..Len(again) : again[i].topic \in DOMAIN retained

-----------------------------------------------------------------------------
\* the accessory slots of every device the account can hold
EverySlot == {<<k, BoxIndices[j]>> : k \in Range(CloudKeys), j \in 1..Len(BoxIndices)}

\* the payloads the call in hand published on topic t, in order
PayloadsOn(t) ==
    LET at == {i \in 1..Len(cloud_call.pubs) : cloud_call.pubs[i].topic = t}
    IN  {cloud_call.pubs[i].payload : i \in at}

PublishesOn(t) ==
    Cardinality({i \in 1..Len(cloud_call.pubs) : cloud_call.pubs[i].topic = t})

\* C27: whatever was published on an accessory state topic, by a live cycle or
\* by the replay of the cache at startup, is "active" or "inactive".  A live
\* cycle publishes one state per slot, "active" exactly when the device object
\* has an entry for the slot and that entry is connected, and the attributes of
\* a slot with telemetry as one JSON object on the slot's attrs topic.
C27_AceStateIsActiveOrInactive ==
    /\ \A s \in EverySlot :
          /\ ha_ace_state_topic(s[1], s[2]) \in DOMAIN retained =>
                retained[ha_ace_state_topic(s[1], s[2])] \in {"active", "inactive"}
          /\ PayloadsOn(ha_ace_state_topic(s[1], s[2])) \subseteq {"active", "inactive"}
    /\ (cloud_call.stage = "done" /\ cloud_call.saved) =>
          \A s \in AllSlots :
              LET boxes == printer_objects_by_key[s[1]].multi_color_box
                  exists == Len(boxes) >= s[2] + 1
                  connected == exists /\ boxes[s[2] + 1].is_connected
              IN  /\ PublishesOn(ha_ace_state_topic(s[1], s[2])) = 1
                  /\ PayloadsOn(ha_ace_state_topic(s[1], s[2]))
                        = {IF connected THEN "active" ELSE "inactive"}
                  /\ PublishesOn(ha_ace_attrs_topic(s[1], s[2]))
                        = (IF exists THEN 1 ELSE 0)
                  /\ \A a \in PayloadsOn(ha_ace_attrs_topic(s[1], s[2])) :
                        /\ SubSeq(a, 1, 1) = "{" /\ SubSeq(a, Len(a), Len(a)) = "}"
                        /\ contains(a, "\"is_connected\": "
                                         \o (IF connected THEN "true" ELSE "false"))

\* a live cycle for a device with a disconnected first and a connected second
\* slot, while some slot has no telemetry
C27_Witness ==
    /\ cloud_call.stage = "done"
    /\ cloud_call.saved
    /\ \E k \in Range(printer_keys) :
          /\ PayloadsOn(ha_ace_state_topic(k, 0)) = {"inactive"}
          /\ PayloadsOn(ha_ace_state_topic(k, 1)) = {"active"}
          /\ Len(printer_objects_by_key[k].multi_color_box) = 2
    /\ \E s \in AllSlots : Len(printer_objects_by_key[s[1]].multi_color_box) <= s[2]

-----------------------------------------------------------------------------
\* C28: an I/O error in save_cache changes nothing but the file.  After a
\* cycle whose save failed the run goes on (the dispatcher takes the next
\* notification), the in-memory snapshot holds the cycle's entry of every slot
\* the cycle stored, and the state the cycle published for it is retained
\* (as long as the local client is connected and the publish went out);
\* and whenever a save succeeded, after a failed one too, the file holds the
\* in-memory snapshot of that moment (until the run has ended, when the file
\* is no longer the program's alone).
C28_FailedSaveChangesNothingElse ==
    (cloud_call.stage = "done" /\ cloud_call.saved) =>
        /\ (cloud_call.outcome \in {"open_fails", "write_fails"}) =>
              /\ phase # "crashed"
              /\ cloud_loop_runs(phase)
              /\ \A s \in cloud_call.recomputed :
                    /\ EntryAt(cache, s) =
                          <<ace_entry(printer_objects_by_key, s[1], s[2])>>
                    /\ local_connected(phase) =>
                          RetainedAt(retained, ha_ace_state_topic(s[1], s[2])) =
                              <<ace_state(printer_objects_by_key, s[1], s[2])>>
        /\ (cloud_call.outcome = "ok" /\ phase \notin Ended) =>
              cache_file = [kind |-> "doc", doc |-> cache]

\* a cycle whose save failed in the write: the file is cut short, the snapshot
\* in memory and the retained state hold the cycle's values, the run goes on
C28_Witness ==
    /\ cloud_call.stage = "done"
    /\ cloud_call.outcome = "write_fails"
    /\ cache_file.kind = "truncated"
    /\ phase = "running"
    /\ \E s \in cloud_call.recomputed :
          /\ EntryAt(cache, s) # <<>>
          /\ EntryAt(cache, s)[1].state = "active"
          /\ RetainedAt(retained, ha_ace_state_topic(s[1], s[2])) = <<"active">>

-----------------------------------------------------------------------------
\* the step in which a handler call does its work
DispatchStep == cloud_call.stage = "pending" /\ cloud_call'.stage = "done"

\* slot s of a device whose accessory data was last changed by a partial
\* frame, no complete frame since, and whose values are not those stored for
\* it: the values a partial frame changed
ChangedByPartialFrame(s) ==
    /\ ace_seen[s[1]] = "partial"
    /\ EntryAt(cache, s) # <<ace_entry(printer_objects_by_key, s[1], s[2])>>

\* C29 (as claimed): the slot values a partial accessory frame changed are
\* not published on the slot's state or attrs topic and not written to the
\* cache, in memory or in the file, by the notification of that frame or by
\* any later one, until a complete ("getInfo") frame of the device has been
\* taken.
C29_PartialValuesHeldBack ==
    [][DispatchStep =>
          \A s \in AllSlots :
              ChangedByPartialFrame(s) =>
                  /\ ha_ace_state_topic(s[1], s[2]) \notin PubTopics(cloud_call'.pubs)
                  /\ ha_ace_attrs_topic(s[1], s[2]) \notin PubTopics(cloud_call'.pubs)
                  /\ EntryAt(cache', s) = EntryAt(cache, s)
                  /\ (cloud_call'.saved /\ cloud_call'.outcome = "ok") =>
                        EntryAt(load_cache(cache_file'), s) = EntryAt(cache, s)]_vars

\* a print report taken after a partial frame: the values the partial frame
\* left in the device object are published and stored
C29_PartialValuesPublishedLater ==
    /\ cloud_call.stage = "done"
    /\ cloud_call.msg_type = "print"
    /\ \E s \in AllSlots :
          /\ ace_seen[s[1]] = "partial"
          /\ has_box(printer_objects_by_key[s[1]], s[2])
          /\ ha_ace_attrs_topic(s[1], s[2]) \in PubTopics(cloud_call.pubs)
          /\ EntryAt(cache, s) = <<ace_entry(printer_objects_by_key, s[1], s[2])>>
          /\ RetainedAt(retained, ha_ace_attrs_topic(s[1], s[2])) =
                <<json_dumps(collect_ace_attrs(printer_objects_by_key, s[1], s[2]))>>

-----------------------------------------------------------------------------
\* what an accessory cycle stores for a slot without telemetry
EmptySnapshot == [state |-> "inactive", attrs |-> JObj(<<>>)]

\* slot s has a last-known snapshot, loaded from the cache file at the start
\* of this run, and no accessory data of its device has come in this run
LastKnownOnly(s) ==
    /\ ace_seen[s[1]] = "none"
    /\ EntryAt(cache, s) # <<>>
    /\ EntryAt(cache, s) # <<EmptySnapshot>>

\* C30 (as claimed): in a run that loaded a cache, a notification handled
\* before any accessory data of the device has come leaves the last-known
\* snapshot of its slots as it is: the entry in memory, the entry in the file
\* and the retained state.
C30_LastKnownSnapshotKept ==
    [][DispatchStep =>
          \A s \in AllSlots :
              LastKnownOnly(s) =>
                  /\ EntryAt(cache', s) = EntryAt(cache, s)
                  /\ EntryAt(load_cache(cache_file'), s) = EntryAt(cache, s)
                  /\ RetainedAt(retained', ha_ace_state_topic(s[1], s[2])) =
                        RetainedAt(retained, ha_ace_state_topic(s[1], s[2]))]_vars

\* a print report as the first notification of a run that loaded a cache: the
\* slot's entry in memory and in the file is the empty snapshot and its
\* retained state "inactive", while the retained attrs still name the slot as
\* connected
C30_SnapshotReplacedByEmpty ==
    /\ cloud_call.stage = "done"
    /\ cloud_call.msg_type = "print"
    /\ \E s \in AllSlots :
          /\ ace_seen[s[1]] = "none"
          /\ EntryAt(cache, s) = <<EmptySnapshot>>
          /\ EntryAt(load_cache(cache_file), s) = <<EmptySnapshot>>
          /\ RetainedAt(retained, ha_ace_state_topic(s[1], s[2])) = <<"inactive">>
          /\ ha_ace_attrs_topic(s[1], s[2]) \in DOMAIN retained
          /\ contains(retained[ha_ace_attrs_topic(s[1], s[2])], "\"is_connected\": true")

-----------------------------------------------------------------------------
\* the state topics of the sensors of the registered devices
SensorStateTopics ==
    {ha_sensor_state_topic(k) : k \in Range(printer_keys)}
        \cup {ha_online_state_topic(k) : k \in Range(printer_keys)}
        \cup JobTopics

\* {localPrefix}/cloud/{originalTopic}
MirrorTopic(topic) == local_prefix \o "/cloud/" \o topic

\* C25: what the publisher puts on a discovery config topic or on a status,
\* online, job or accessory topic is retained: after the startup publish the
\* broker retains every descriptor and every sensor state, and every publish
\* of a handler call carries the retain flag and is retained as published.
\* A mirrored cloud message is published once, on
\* {localPrefix}/cloud/{originalTopic}, with the payload as received and
\* without the retain flag, so the broker keeps nothing of it; when that
\* publish raises, one error is logged and no second attempt is made.
C25_SensorsRetainedMirrorNot ==
    /\ phase = "running" =>
          /\ SensorStateTopics \subseteq DOMAIN retained
          /\ \A pubs \in {DescriptorsNow} :
                \A i \in 1..Len(pubs) : pubs[i].topic \in DOMAIN retained
    /\ \A i \in 1..Len(cloud_call.pubs) :
          /\ cloud_call.pubs[i].retain
          /\ cloud_call.pubs[i].topic \in
                SensorStateTopics \cup AceStateTopics \cup AceAttrsTopics
          /\ cloud_call.pubs[i].ok =>
                RetainedAt(retained, cloud_call.pubs[i].topic)
                    = <<cloud_call.pubs[i].payload>>
    /\ mirror_call # NoMirror =>
          /\ Len(mirror_call.pubs) = 1
          /\ mirror_call.pubs[1].topic = MirrorTopic(mirror_call.topic)
          /\ mirror_call.pubs[1].payload = mirror_call.payload
          /\ ~mirror_call.pubs[1].retain
          /\ mirror_call.errors = (IF mirror_call.pubs[1].ok THEN 0 ELSE 1)
    /\ \A t \in MirroredTopics : MirrorTopic(t) \notin DOMAIN retained

\* a mirrored message that went out, after the sensors of a cycle were
\* published
C25_Witness ==
    /\ mirror_call # NoMirror
    /\ mirror_call.pubs[1].ok
    /\ mirror_call.pubs[1].topic =
          "anycubic_cloud_proxy/cloud/anycubic/anycubicCloud/v1/printer/public/20021/k1/print/report"
    /\ notifications > 0
    /\ \E s \in AllSlots :
          RetainedAt(retained, ha_ace_state_topic(s[1], s[2])) = <<"active">>

-----------------------------------------------------------------------------
\* the cloud thread is part-way through the status refresh of a handler call:
\* some devices of the registry have their new status, others not yet
MidRefresh ==
    /\ cloud_call.stage = "pending"
    /\ cloud_call.refreshed > 0
    /\ cloud_call.refreshed < Len(printer_keys)

\* the step is a call of _on_local_message that looks a device up in the
\* registry
RegistryReadStep ==
    /\ local_call' # local_call
    /\ local_call'.branch = "publish"

\* C21 (as claimed): access to the registry is mutually exclusive between the
\* threads: the handler of the local thread does not read the registry while
\* the handler of the cloud thread has refreshed the status of some devices
\* and not yet of the others.
C21_RegistryAccessExclusive ==
    [][RegistryReadStep => ~MidRefresh]_vars

\* the registry part-way through a refresh, seen by a structured publish: the
\* first device has the status of its device object, the second does not
C21_ReadDuringRefresh ==
    /\ MidRefresh
    /\ local_call.branch = "publish"
    /\ Len(local_call.forwarded) = 1
    /\ Len(printer_keys) = 2
    /\ printers_by_key[printer_keys[2]].status
          # printer_objects_by_key[printer_keys[2]].current_status

-----------------------------------------------------------------------------
\* the step is a call of _on_local_message
LocalStep == local_call' # local_call

\* the topic the last call may forward on, from what the message says and the
\* identity of the device alone: the envelope's topic, or the prefix, the
\* machine type and key of the addressed device and the endpoint
TopicByIdentity ==
    IF local_call.branch = "raw" THEN EnvelopeTopic
    ELSE PublishTopicPrefix \o MachineType[DeviceKeyOf(local_call.topic)] \o "/"
            \o DeviceKeyOf(local_call.topic) \o "/" \o EndpointOf(local_call.topic)

\* C31: a call of _on_local_message, whatever becomes of the message, leaves
\* the registry, the device objects, the in-memory cache, the cache file and
\* the retained local topics as they were; it makes at most one publish on the
\* cloud channel, and the topic of that publish is fixed by the message and the
\* identity of the device, wherever the cloud handler stands in its refresh.
C31_LocalCallOnlyForwards ==
    [][LocalStep =>
          /\ UNCHANGED <<registry_vars, cache, cache_file, retained>>
          /\ UNCHANGED <<cloud_call, ace_seen, mirror_call>>
          /\ Len(local_call'.forwarded) <= 1
          /\ \A i \in 1..Len(local_call'.forwarded) :
                local_call'.forwarded[i].topic = TopicByIdentity']_vars

\* a structured publish forwarded while the cloud handler is between two
\* turns of its status refresh and the registry already holds a new status
C31_Witness ==
    /\ local_call.branch = "publish"
    /\ Len(local_call.forwarded) = 1
    /\ local_call.forwarded[1].topic =
          "anycubic/anycubicCloud/v1/printer/public/20021/k1/print"
    /\ MidRefresh
    /\ printers_by_key["k1"].status = "busy"

-----------------------------------------------------------------------------
\* the stop event is set
StopEventSet == phase \in {"stopping", "stopped"}

\* C32: once the stop signal has set the stop event of a running daemon, run()
\* leaves its wait, runs the shutdown sequence and returns, whatever the local
\* loop, the cloud loop and the retry timers do meanwhile; and the stop event,
\* once set, stays set.
C32_StopEventEndsTheRun ==
    /\ (phase = "stopping") ~> (phase = "stopped")
    /\ [][StopEventSet => StopEventSet']_vars

\* run() has returned while a notification was in its handler, between two
\* status refreshes, and a retry timer was still pending
C32_Witness ==
    /\ phase = "stopped"
    /\ cloud_call.stage = "pending"
    /\ cloud_call.refreshed = 1
    /\ \E p \in DOMAIN timers : timers[p] > 0

====
